---- MODULE Spec2Model ----
(***************************************************************************)
(* Model of opencxl-core.                                                  *)
(*                                                                         *)
(* The Fabric-Manager LD (FMLD), src/opencxl/cxl/component/fmld.py, serves *)
(* the FM-API CCI commands Get LD Info (0x5400), Get LD Allocations        *)
(* (0x5401) and Set LD Allocations (0x5402) taken from upstream            *)
(* host_to_target and answers on upstream target_to_host; a second task    *)
(* forwards what a downstream FIFO delivers.                               *)
(*   Spec       the request task of an FMLD constructed without a          *)
(*              downstream FIFO (downstream_fifo = None, the default)      *)
(*   SpecRelay  both tasks of an FMLD with or without a downstream FIFO    *)
(*   SpecRelayLive  SpecRelay with the tasks scheduled fairly and the      *)
(*                  responses read                                         *)
(*   SpecSetList    one Set LD Allocations request from the list its sender*)
(*                  gives to the amounts applied                           *)
(*                                                                         *)
(* The virtual switch, src/opencxl/cxl/component/virtual_switch/           *)
(* virtual_switch.py, binds vPPBs to downstream ports, tells an event      *)
(* handler and the host (through the IRQ manager,                          *)
(* src/opencxl/cxl/component/irq_manager.py) about it, and starts and      *)
(* stops its sub-components.                                               *)
(*   SpecSwitch      the switch from run() on with the calls of a fabric   *)
(*                   manager                                               *)
(*   SpecSwitchStop  the switch from run() to the return of stop() with    *)
(*                   the tasks of its IRQ manager                          *)
(*   SpecConcurrent  bind_vppb and unbind_vppb calls that run at the same  *)
(*                   time on a running switch                              *)
(*                                                                         *)
(* The IRQ manager on its own, as the server of a host or the client of a  *)
(* device, with its handler registries and its peers.                      *)
(*   SpecIrq      registration, connections and the dispatch of messages   *)
(*   SpecIrqSend  connections in any order and send_irq_request            *)
(*   SpecIrqStop  SpecIrq with callbacks that finish and with stop()       *)
(*   SpecFrame    one 2-byte frame from send_irq_request to _irq_handler   *)
(*   SpecIrqShutdown  the manager with _run_status and shutdown()          *)
(*                                                                         *)
(* The payloads of Set LD Allocations, src/opencxl/cxl/cci/fabric_manager/ *)
(* mld_components/set_ld_allocations.py.                                   *)
(*   SpecPayload  parse then dump of a well-formed payload                 *)
(*   SpecLdaPayload  parse then dump of a Get LD Allocations response      *)
(*                   payload, mld_components/get_ld_allocations.py         *)
(*                                                                         *)
(* The multi-logical device, src/opencxl/apps/multi_logical_device.py, and *)
(* the relay src/opencxl/pci/component/mctp_packet_processor.py.           *)
(*   SpecMld   requests routed by ld_id to the devices, and completions    *)
(*   SpecMctp  the two coroutines of MctpPacketProcessor and their queues  *)
(***************************************************************************)
EXTENDS Integers, Sequences, FiniteSets

VARIABLES
    ld_count,      \* FMLD._ld_count
    ld_dict,       \* FMLD._ld_dict: LD id -> 1 (free/enabled) or 0 (allocated)
    h2t,           \* FMLD._upstream_fifo.host_to_target (queue of requests)
    t2h,           \* FMLD._upstream_fifo.target_to_host (queue of responses)
    fm_pc,         \* position of the task FMLD._process_fm_to_target
    stop_called,   \* FMLD._stop has run
    outstanding,   \* the request the fabric manager sent last and has no
                   \* response to yet (None when there is none)
    downstream,    \* FMLD._downstream_fifo is not None
    ds_t2h,        \* FMLD._downstream_fifo.target_to_host
    tf_pc,         \* position of the task FMLD._process_target_to_fm
    ld_sent,       \* number of packets the downstream device has put
    run_pc,        \* position of FMLD._run
    initial_bounds,   \* CxlVirtualSwitch._initial_bounds
    rt_active,        \* RoutingTable: vPPB index -> entry is active
    vppb_port,        \* DownstreamVppb: the port it is attached to, or -1
    bind_state,       \* PortBinder: vPPB index -> bound port, or -1
    event_handler,    \* CxlVirtualSwitch._event_handler is set
    call,             \* the bind/unbind call in progress, or the last one
    calls_made,       \* number of calls the fabric manager has made
    sw_pc,            \* position of CxlVirtualSwitch._run
    applied,          \* number of entries of initial_bounds applied
    sw_status,        \* status the switch reports
    sub_status,       \* status of each sub-component of the switch
    stop_pc,          \* position of CxlVirtualSwitch.stop
    irq_connections,  \* len(IrqManager._connections)
    irq_wire,         \* bytes frames written to the IRQ connection
    irq_mgr_tasks,    \* IrqManager._tasks: state of each task
    irq_handlers,     \* IrqManager._irq_handlers: state of each task
    irq_tasks,        \* IrqManager._irq_tasks: state of each task
    irq_server,       \* IrqManager._server
    irq_pc,           \* position of IrqManager._run
    irq_registry,     \* _msg_to_interrupt_event and _general_interrupt_event
    irq_links,        \* per connection: the peer and the bytes in flight
    irq_invoked,      \* IrqManager._irq_tasks: the callback of each task
    frame,            \* an IRQ message from its sender to its receiver
    payload,          \* a Set LD Allocations payload, parsed and dumped
    mld,              \* a multi-logical device, its connections and its socket
    mctp,             \* an MctpPacketProcessor between two FIFO pairs
    irq_run,          \* the run status of an IRQ manager that is shut down, and its readers
    sw_calls          \* the bind and unbind calls that run at the same time on a switch

fmld_vars == <<ld_count, ld_dict, h2t, t2h, fm_pc, stop_called, outstanding>>

relay_vars == <<downstream, ds_t2h, tf_pc, ld_sent, run_pc>>

switch_vars ==
    <<initial_bounds, rt_active, vppb_port, bind_state,
      event_handler, call, calls_made, sw_pc, applied, sw_status,
      sub_status, stop_pc>>

irq_vars ==
    <<irq_connections, irq_wire, irq_mgr_tasks, irq_handlers, irq_tasks>>

\* the components that are modelled on their own
aux_vars == <<mld, mctp, irq_run, sw_calls>>

\* the IRQ manager with its registry and peers, and the codecs
ext_vars ==
    <<irq_server, irq_pc, irq_registry, irq_links, irq_invoked, frame, payload,
      aux_vars>>

vars == <<fmld_vars, relay_vars, switch_vars, irq_vars, ext_vars>>

----------------------------------------------------------------------------
(* Bounds of the model *)

\* largest ld_count an FMLD is constructed with
MaxLdCount == 4
\* largest number_of_lds of a Set LD Allocations request, and the largest
\* number of bytes packed into its ld_allocation_list
MaxN == 3
\* largest per-LD amount requested by a Set LD Allocations request
MaxReq == 2

----------------------------------------------------------------------------
(* Program constants *)

OPCODE_GET_LD_INFO == 21504          \* 0x5400
OPCODE_GET_LD_ALLOCATIONS == 21505   \* 0x5401
OPCODE_SET_LD_ALLOCATIONS == 21506   \* 0x5402
\* FMLD._memory_granularity
memory_granularity == 256
\* the granularity G in bytes, 1024 * 1024 * 256 of _process_get_ld_info_packet
G == 268435456

\* opcodes that _process_fm_to_target has no branch for
OtherOpcodes == {21507, 1}

\* the closed sentinel put by _stop (None)
None == [opcode |-> -1, start_ld_id |-> 0, ld_allocation_list_limit |-> 0,
         number_of_lds |-> 0, ld_allocation_list |-> 0]

----------------------------------------------------------------------------
(* Pure helpers of fmld.py *)

\* list_to_int: result = (result << 8) | value, over the list left to right
RECURSIVE list_to_int(_)
list_to_int(allocated_ld_list) ==
    IF allocated_ld_list = <<>> THEN 0
    ELSE LET n == Len(allocated_ld_list)
         IN  list_to_int(SubSeq(allocated_ld_list, 1, n - 1)) * 256
               + allocated_ld_list[n]

\* int_to_list: length times, insert (v & 0xFF) at the front and shift v right by 8
RECURSIVE int_to_list(_, _)
int_to_list(allocated_ld_list_bytes, length) ==
    IF length <= 0 THEN <<>>
    ELSE Append(int_to_list(allocated_ld_list_bytes \div 256, length - 1),
                allocated_ld_list_bytes % 256)

\* bytes(list) accepts only values in 0..255 (ValueError otherwise)
bytes_ok(list) == \A k \in 1..Len(list) : list[k] \in 0..255

Min(a, b) == IF a < b THEN a ELSE b
Max(a, b) == IF a > b THEN a ELSE b

----------------------------------------------------------------------------
(* Requests the fabric manager can send *)

Request(op, start, limit, n, alloc) ==
    [opcode |-> op, start_ld_id |-> start, ld_allocation_list_limit |-> limit,
     number_of_lds |-> n, ld_allocation_list |-> alloc]

RECURSIVE SeqsUpTo(_, _)
SeqsUpTo(S, n) ==
    IF n = 0 THEN {<<>>}
    ELSE LET shorter == SeqsUpTo(S, n - 1)
         IN  shorter \cup {Append(s, x) : s \in shorter, x \in S}

\* packed allocation lists: list_to_int of every list of at most MaxN amounts
AllocInts == {list_to_int(L) : L \in SeqsUpTo(0..MaxReq, MaxN)}

GetLdInfoRequests == {Request(OPCODE_GET_LD_INFO, 0, 0, 0, 0)}

GetLdAllocationsRequests ==
    {Request(OPCODE_GET_LD_ALLOCATIONS, s, l, 0, 0) :
        s \in 0..(ld_count + 1), l \in 0..(ld_count + 1)}

SetLdAllocationsRequests ==
    {Request(OPCODE_SET_LD_ALLOCATIONS, s, 0, n, a) :
        s \in 0..ld_count, n \in 0..MaxN, a \in AllocInts}

OtherRequests == {Request(op, 0, 0, 0, 0) : op \in OtherOpcodes}

Requests ==
    GetLdInfoRequests \cup GetLdAllocationsRequests
        \cup SetLdAllocationsRequests \cup OtherRequests

----------------------------------------------------------------------------
(* FMLD.__init__ *)

\* nothing of the forwarding task has happened
RelayIdle ==
    /\ ds_t2h = <<>>
    /\ tf_pc = "created"
    /\ ld_sent = 0
    /\ run_pc = "created"

\* no bind or unbind call: the record `call` holds when none was made
NoCall ==
    [op |-> "none", port_index |-> -1, vppb_index |-> -1, pc |-> "idle",
     caller |-> "none", error |-> "", had_handler |-> FALSE, log |-> <<>>]

\* the components that have a specification of their own are absent
AuxIdle ==
    /\ mld = <<>>
    /\ mctp = <<>>
    /\ irq_run = <<>>
    /\ sw_calls = <<>>

\* no IRQ manager of its own, no IRQ message and no payload
ExtIdle ==
    /\ irq_server = FALSE
    /\ irq_pc = "none"
    /\ irq_registry = <<>>
    /\ irq_links = <<>>
    /\ irq_invoked = <<>>
    /\ frame = <<>>
    /\ payload = <<>>
    /\ AuxIdle

\* there is no virtual switch
SwitchIdle ==
    /\ initial_bounds = <<>>
    /\ rt_active = <<>>
    /\ vppb_port = <<>>
    /\ bind_state = <<>>
    /\ event_handler = FALSE
    /\ call = NoCall
    /\ calls_made = 0
    /\ sw_pc = "none"
    /\ applied = 0
    /\ sw_status = "none"
    /\ sub_status = <<>>
    /\ stop_pc = "none"
    /\ irq_connections = 0
    /\ irq_wire = <<>>
    /\ irq_mgr_tasks = <<>>
    /\ irq_handlers = <<>>
    /\ irq_tasks = <<>>
    /\ ExtIdle

\* the state after FMLD.__init__ of an FMLD without a downstream FIFO
Init ==
    /\ ld_count \in 1..MaxLdCount
    /\ ld_dict = [i \in 0..(ld_count - 1) |-> 1]
    /\ h2t = <<>>
    /\ t2h = <<>>
    /\ fm_pc = "created"
    /\ stop_called = FALSE
    /\ outstanding = None
    /\ downstream = FALSE
    /\ RelayIdle
    /\ SwitchIdle

----------------------------------------------------------------------------
(* FMLD._process_get_ld_info_packet *)

\* bug variant: sizes the device by the LDs still free instead of ld_count
get_ld_info_response_free_only(dict, cnt) ==
    [kind |-> "GetLdInfoResponse",
     memory_size |->
        Cardinality({i \in DOMAIN dict : dict[i] = 1}) * 1024 * 1024 * 256,
     ld_count |-> cnt]

get_ld_info_response(dict, cnt) ==
    [kind |-> "GetLdInfoResponse",
     memory_size |-> cnt * 1024 * 1024 * 256,
     ld_count |-> cnt]

----------------------------------------------------------------------------
(* FMLD._process_get_ld_allocations_packet *)

\* bug variant: every start_ld_id is refused
invalid_start_ld_id_always(dict, start_ld_id) == TRUE

\* the check that raises Exception("Invalid start_ld_id")
invalid_start_ld_id(dict, start_ld_id) ==
    start_ld_id < 0 \/ start_ld_id >= Cardinality(DOMAIN dict)

max_len_ld_list(dict, start_ld_id) == Cardinality(DOMAIN dict) - start_ld_id

ld_length(dict, start_ld_id, ld_alloc_list_limit) ==
    IF ld_alloc_list_limit < max_len_ld_list(dict, start_ld_id)
    THEN ld_alloc_list_limit
    ELSE max_len_ld_list(dict, start_ld_id)

\* bug variant: counts over range(ld_length), so the limit cuts the count
count_number_of_lds_limited(dict, start_ld_id, ld_alloc_list_limit) ==
    Cardinality({i \in 0..(ld_length(dict, start_ld_id, ld_alloc_list_limit) - 1) :
                    dict[start_ld_id + i] = 1})

\* "calculate number of lds": the loop over range(max_len_ld_list)
count_number_of_lds(dict, start_ld_id, ld_alloc_list_limit) ==
    Cardinality({i \in 0..(max_len_ld_list(dict, start_ld_id) - 1) :
                    dict[start_ld_id + i] = 1})

\* bug variant: continue instead of break on a zero entry
RECURSIVE make_allocated_ld_no_break(_, _, _, _, _)
make_allocated_ld_no_break(dict, start_ld_id, length, i, allocated_ld) ==
    IF i >= length THEN allocated_ld
    ELSE IF dict[start_ld_id + i] = 1
         THEN make_allocated_ld_no_break(dict, start_ld_id, length, i + 1,
                                         Append(allocated_ld, 1))
         ELSE make_allocated_ld_no_break(dict, start_ld_id, length, i + 1,
                                         allocated_ld)

\* "make ld allocation list": the loop over range(ld_length), from index i on,
\* with allocated_ld the list built so far
RECURSIVE make_allocated_ld(_, _, _, _, _)
make_allocated_ld(dict, start_ld_id, length, i, allocated_ld) ==
    IF i >= length THEN allocated_ld
    ELSE IF dict[start_ld_id + i] = 1
         THEN make_allocated_ld(dict, start_ld_id, length, i + 1,
                                Append(allocated_ld, 1))
         ELSE IF dict[start_ld_id + i] = 0
              THEN allocated_ld                               \* break
              ELSE make_allocated_ld(dict, start_ld_id, length, i + 1,
                                     allocated_ld)

get_ld_allocations_response(dict, packet) ==
    LET start_ld_id == packet.start_ld_id
        limit == packet.ld_allocation_list_limit
        allocated_ld ==
            make_allocated_ld(dict, start_ld_id,
                              ld_length(dict, start_ld_id, limit), 0, <<>>)
    IN  [kind |-> "GetLdAllocationsResponse",
         number_of_lds |-> count_number_of_lds(dict, start_ld_id, limit),
         memory_granularity |-> 0,
         start_ld_id |-> start_ld_id,
         ld_allocation_list_length |-> Len(allocated_ld),
         ld_allocation_list |-> allocated_ld]

----------------------------------------------------------------------------
(* FMLD._process_set_ld_allocations_packet *)

\* bug variant: the clamp is off by one
clamp_number_of_lds_off_by_one(dict, start_ld_id, number_of_lds) ==
    IF Cardinality(DOMAIN dict) - start_ld_id - 1 < number_of_lds
    THEN Cardinality(DOMAIN dict) - start_ld_id - 1
    ELSE number_of_lds

\* the clamp of number_of_lds to len(self._ld_dict) - start_ld_id
clamp_number_of_lds(dict, start_ld_id, number_of_lds) ==
    IF Cardinality(DOMAIN dict) - start_ld_id < number_of_lds
    THEN Cardinality(DOMAIN dict) - start_ld_id
    ELSE number_of_lds

\* bug variant: the request is subtracted whatever is left
set_ld_step_unchecked(acc, id, req) ==
    [dict |-> [acc.dict EXCEPT ![id] = acc.dict[id] - req],
     list |-> Append(acc.list, req),
     count |-> acc.count + 1]

\* bug variant: what is left is granted and stays in the dictionary
set_ld_step_keeps_remainder(acc, id, req) ==
    IF acc.dict[id] >= req
    THEN [dict |-> [acc.dict EXCEPT ![id] = acc.dict[id] - req],
          list |-> Append(acc.list, req),
          count |-> acc.count + 1]
    ELSE IF acc.dict[id] = 0
         THEN [acc EXCEPT !.list = Append(acc.list, 0)]
         ELSE [acc EXCEPT !.list = Append(acc.list, acc.dict[id]),
                          !.count = acc.count + 1]

\* bug variant: a request above what is left is reported as granted in full
set_ld_step_reports_request(acc, id, req) ==
    IF acc.dict[id] >= req
    THEN [dict |-> [acc.dict EXCEPT ![id] = acc.dict[id] - req],
          list |-> Append(acc.list, req),
          count |-> acc.count + 1]
    ELSE IF acc.dict[id] = 0
         THEN [acc EXCEPT !.list = Append(acc.list, 0)]
         ELSE [dict |-> [acc.dict EXCEPT ![id] = 0],
               list |-> Append(acc.list, req),
               count |-> acc.count + 1]

\* one iteration of the "make ld allocation list" loop: acc holds the
\* dictionary, the response list and response_number_of_lds so far; id is
\* start_ld_id + i and req is ld_allocation_list[i]
set_ld_step(acc, id, req) ==
    IF acc.dict[id] >= req
    THEN [dict |-> [acc.dict EXCEPT ![id] = acc.dict[id] - req],
          list |-> Append(acc.list, req),
          count |-> acc.count + 1]
    ELSE IF acc.dict[id] = 0
         THEN [acc EXCEPT !.list = Append(acc.list, 0)]
         ELSE IF acc.dict[id] < req
              THEN [dict |-> [acc.dict EXCEPT ![id] = 0],
                    list |-> Append(acc.list, acc.dict[id]),
                    count |-> acc.count + 1]
              ELSE acc

\* the id of the LD that iteration i of the loop works on
set_ld_id(start_ld_id, i) == start_ld_id + i

RECURSIVE set_ld_loop(_, _, _, _, _)
set_ld_loop(acc, start_ld_id, number_of_lds, ld_allocation_list, i) ==
    IF i >= number_of_lds THEN acc
    ELSE set_ld_loop(set_ld_step(acc, set_ld_id(start_ld_id, i),
                                 ld_allocation_list[i + 1]),
                     start_ld_id, number_of_lds, ld_allocation_list, i + 1)

\* the whole handler: the dictionary, response list and count it ends with
set_ld_allocations(dict, packet) ==
    LET ld_allocation_list ==
            int_to_list(packet.ld_allocation_list, packet.number_of_lds)
        number_of_lds ==
            clamp_number_of_lds(dict, packet.start_ld_id, packet.number_of_lds)
    IN  set_ld_loop([dict |-> dict, list |-> <<>>, count |-> 0],
                    packet.start_ld_id, number_of_lds, ld_allocation_list, 0)

set_ld_allocations_response(dict, packet) ==
    LET done == set_ld_allocations(dict, packet)
    IN  [kind |-> "SetLdAllocationsResponse",
         number_of_lds |-> done.count,
         start_ld_id |-> packet.start_ld_id,
         ld_allocation_list |-> done.list]

----------------------------------------------------------------------------
(* FMLD._run: both tasks are created and _run waits in gather *)

Run ==
    /\ fm_pc = "created"
    /\ fm_pc' = "running"
    /\ tf_pc' = "started"
    /\ run_pc' = "gather"
    /\ UNCHANGED <<ld_count, ld_dict, h2t, t2h, stop_called, outstanding>>
    /\ UNCHANGED <<downstream, ds_t2h, ld_sent, switch_vars, irq_vars>>
    /\ UNCHANGED ext_vars

(* FMLD._process_fm_to_target: one iteration of the loop per action, by the
   branch the dequeued packet takes *)

Dequeued == fm_pc = "running" /\ h2t # <<>>

\* packet is None: the loop breaks
FmStopped ==
    /\ Dequeued
    /\ Head(h2t) = None
    /\ h2t' = Tail(h2t)
    /\ fm_pc' = "stopped"
    /\ UNCHANGED <<ld_count, ld_dict, t2h, stop_called, outstanding>>
    /\ UNCHANGED <<relay_vars, switch_vars, irq_vars>>
    /\ UNCHANGED ext_vars

\* bug variant: the handler marks every LD allocated
FmGetLdInfo_allocates ==
    /\ Dequeued
    /\ Head(h2t).opcode = OPCODE_GET_LD_INFO
    /\ h2t' = Tail(h2t)
    /\ t2h' = Append(t2h, get_ld_info_response(ld_dict, ld_count))
    /\ ld_dict' = [i \in DOMAIN ld_dict |-> 0]
    /\ UNCHANGED <<ld_count, fm_pc, stop_called, outstanding>>
    /\ UNCHANGED <<relay_vars, switch_vars, irq_vars>>
    /\ UNCHANGED ext_vars

FmGetLdInfo ==
    /\ Dequeued
    /\ Head(h2t).opcode = OPCODE_GET_LD_INFO
    /\ h2t' = Tail(h2t)
    /\ t2h' = Append(t2h, get_ld_info_response(ld_dict, ld_count))
    /\ UNCHANGED <<ld_count, ld_dict, fm_pc, stop_called, outstanding>>
    /\ UNCHANGED <<relay_vars, switch_vars, irq_vars>>
    /\ UNCHANGED ext_vars

\* the handler raises when start_ld_id is invalid: the exception leaves the
\* loop and ends the task
FmGetLdAllocations ==
    /\ Dequeued
    /\ Head(h2t).opcode = OPCODE_GET_LD_ALLOCATIONS
    /\ h2t' = Tail(h2t)
    /\ IF invalid_start_ld_id(ld_dict, Head(h2t).start_ld_id)
       THEN /\ fm_pc' = "failed"
            /\ t2h' = t2h
       ELSE /\ t2h' = Append(t2h, get_ld_allocations_response(ld_dict, Head(h2t)))
            /\ fm_pc' = fm_pc
    /\ UNCHANGED <<ld_count, ld_dict, stop_called, outstanding>>
    /\ UNCHANGED <<relay_vars, switch_vars, irq_vars>>
    /\ UNCHANGED ext_vars

\* bytes(response_ld_allocated_list) raises for a value outside 0..255
FmSetLdAllocations ==
    /\ Dequeued
    /\ Head(h2t).opcode = OPCODE_SET_LD_ALLOCATIONS
    /\ h2t' = Tail(h2t)
    /\ ld_dict' = set_ld_allocations(ld_dict, Head(h2t)).dict
    /\ IF bytes_ok(set_ld_allocations(ld_dict, Head(h2t)).list)
       THEN /\ t2h' = Append(t2h, set_ld_allocations_response(ld_dict, Head(h2t)))
            /\ fm_pc' = fm_pc
       ELSE /\ fm_pc' = "failed"
            /\ t2h' = t2h
    /\ UNCHANGED <<ld_count, stop_called, outstanding>>
    /\ UNCHANGED <<relay_vars, switch_vars, irq_vars>>
    /\ UNCHANGED ext_vars

\* no branch of the if/elif chain matches: the packet is dropped
FmOtherOpcode ==
    /\ Dequeued
    /\ Head(h2t) # None
    /\ Head(h2t).opcode \notin {OPCODE_GET_LD_INFO, OPCODE_GET_LD_ALLOCATIONS,
                                OPCODE_SET_LD_ALLOCATIONS}
    /\ h2t' = Tail(h2t)
    /\ UNCHANGED <<ld_count, ld_dict, t2h, fm_pc, stop_called, outstanding>>
    /\ UNCHANGED <<relay_vars, switch_vars, irq_vars>>
    /\ UNCHANGED ext_vars

(* FMLD._stop: puts the closed sentinel on downstream target_to_host when
   there is a downstream FIFO, then on upstream host_to_target *)
Stop ==
    /\ ~stop_called
    /\ stop_called' = TRUE
    /\ ds_t2h' = IF downstream THEN Append(ds_t2h, None) ELSE ds_t2h
    /\ h2t' = Append(h2t, None)
    /\ UNCHANGED <<ld_count, ld_dict, t2h, fm_pc, outstanding>>
    /\ UNCHANGED <<downstream, tf_pc, ld_sent, run_pc, switch_vars, irq_vars>>
    /\ UNCHANGED ext_vars

(* The fabric manager (send_packets of the tunnel test): it writes a request
   when nothing of the last one is left in the queues, and reads the response *)
HostSend ==
    /\ h2t = <<>>
    /\ t2h = <<>>
    /\ \E req \in Requests :
          /\ h2t' = Append(h2t, req)
          /\ outstanding' = req
    /\ UNCHANGED <<ld_count, ld_dict, t2h, fm_pc, stop_called>>
    /\ UNCHANGED <<relay_vars, switch_vars, irq_vars>>
    /\ UNCHANGED ext_vars

HostReceive ==
    /\ t2h # <<>>
    /\ t2h' = Tail(t2h)
    /\ outstanding' = None
    /\ UNCHANGED <<ld_count, ld_dict, h2t, fm_pc, stop_called>>
    /\ UNCHANGED <<relay_vars, switch_vars, irq_vars>>
    /\ UNCHANGED ext_vars

Next ==
    \/ Run
    \/ FmStopped
    \/ FmGetLdInfo
    \/ FmGetLdAllocations
    \/ FmSetLdAllocations
    \/ FmOtherOpcode
    \/ Stop
    \/ HostSend
    \/ HostReceive

Spec == Init /\ [][Next]_vars

----------------------------------------------------------------------------
(* Vocabulary of the properties *)

\* this step is the iteration of _process_fm_to_target that takes a request
\* with opcode op from upstream host_to_target
Processing(op) ==
    /\ Dequeued
    /\ Head(h2t) # None
    /\ Head(h2t).opcode = op
    /\ h2t' = Tail(h2t)

\* this step puts exactly one packet on upstream target_to_host
Answered == Len(t2h') = Len(t2h) + 1 /\ SubSeq(t2h', 1, Len(t2h)) = t2h
Answer == t2h'[Len(t2h')]

IsSetResponse(r) == r.kind = "SetLdAllocationsResponse"
IsGetResponse(r) == r.kind = "GetLdAllocationsResponse"
IsInfoResponse(r) == r.kind = "GetLdInfoResponse"
\* a CciResponse carrying a nonzero return code
IsErrorResponse(r) == r.kind = "CciResponse" /\ r.return_code # 0

\* the amounts a Set LD Allocations request asks for, per processed index
RequestedAmounts(p) == int_to_list(p.ld_allocation_list, p.number_of_lds)
\* number_of_lds clamped to the LDs from start_ld_id on
ClampedNumberOfLds(p) ==
    Max(0, Min(p.number_of_lds, ld_count - p.start_ld_id))

Ones(n) == [k \in 1..n |-> 1]
\* the number of leading 1 entries among dict[start], ..., dict[start+len-1]
LeadingOnes(dict, start, len) ==
    Cardinality({k \in 1..len : \A i \in 0..(k - 1) : dict[start + i] = 1})

\* the response to the request the fabric manager waits on is in the queue
ResponseTo(op) ==
    /\ outstanding # None
    /\ outstanding.opcode = op
    /\ Len(t2h) = 1

----------------------------------------------------------------------------
(* C1: Set LD Allocations grants, for every processed index i, the amount
   g_i = min(ld_dict[start_ld_id+i], request_i), decrements that entry by
   exactly g_i and reports g_i as the i-th byte of the response list. *)
C1_SetGrantsMin ==
    [][Processing(OPCODE_SET_LD_ALLOCATIONS) =>
        LET p == Head(h2t)
            s == p.start_ld_id
            request == RequestedAmounts(p)
        IN  /\ Answered
            /\ IsSetResponse(Answer)
            /\ Len(Answer.ld_allocation_list) = ClampedNumberOfLds(p)
            /\ \A i \in 0..(ClampedNumberOfLds(p) - 1) :
                  LET g == Min(ld_dict[s + i], request[i + 1])
                  IN  /\ ld_dict'[s + i] = ld_dict[s + i] - g
                      /\ Answer.ld_allocation_list[i + 1] = g]_vars

\* a Set response in which an LD asked for more than 1 was granted 1
C1_Witness ==
    /\ ResponseTo(OPCODE_SET_LD_ALLOCATIONS)
    /\ IsSetResponse(t2h[1])
    /\ \E i \in 0..(Len(t2h[1].ld_allocation_list) - 1) :
          /\ RequestedAmounts(outstanding)[i + 1] > 1
          /\ t2h[1].ld_allocation_list[i + 1] = 1
          /\ ld_dict[outstanding.start_ld_id + i] = 0

(* C2: the number_of_lds of a Set LD Allocations response is the number of
   processed LDs with a grant g_i > 0; for ld_dict = [1,1,1,1], start_ld_id
   = 0, number_of_lds = 3 and requests [0,1,2] it is 2, the list is [0,1,1]
   and ld_dict becomes [1,0,0,1]. *)
C2_CountsOnlyGrants ==
    [][Processing(OPCODE_SET_LD_ALLOCATIONS) =>
        LET p == Head(h2t)
            s == p.start_ld_id
            request == RequestedAmounts(p)
        IN  /\ Answered
            /\ IsSetResponse(Answer)
            /\ Answer.number_of_lds =
                  Cardinality({i \in 0..(ClampedNumberOfLds(p) - 1) :
                                  Min(ld_dict[s + i], request[i + 1]) > 0})
            /\ ( /\ ld_dict = [j \in 0..3 |-> 1]
                 /\ s = 0
                 /\ p.number_of_lds = 3
                 /\ request = <<0, 1, 2>> )
               => /\ Answer.number_of_lds = 2
                  /\ Answer.ld_allocation_list = <<0, 1, 1>>
                  /\ ld_dict' = [j \in 0..3 |-> IF j \in {1, 2} THEN 0 ELSE 1]]_vars

(* C3: every entry of ld_dict is 0 or 1, whatever requests were served. *)
C3_LdDictInRange ==
    \A j \in DOMAIN ld_dict : ld_dict[j] \in {0, 1}

\* every LD has been allocated, the last by a request for more than 1
C3_Witness ==
    /\ \A j \in DOMAIN ld_dict : ld_dict[j] = 0
    /\ ResponseTo(OPCODE_SET_LD_ALLOCATIONS)
    /\ \E i \in 1..Len(t2h[1].ld_allocation_list) :
          /\ RequestedAmounts(outstanding)[i] = MaxReq
          /\ t2h[1].ld_allocation_list[i] = 1

(* C4: Get LD Allocations with a valid start_ld_id reports as number_of_lds
   the number of LDs j in [start_ld_id, ld_count) with ld_dict[j] = 1,
   whatever the limit, and echoes start_ld_id. *)
C4_NumberOfLdsCountsAll ==
    [][( /\ Processing(OPCODE_GET_LD_ALLOCATIONS)
         /\ Head(h2t).start_ld_id \in 0..(ld_count - 1) ) =>
        /\ Answered
        /\ IsGetResponse(Answer)
        /\ Answer.number_of_lds =
              Cardinality({j \in Head(h2t).start_ld_id..(ld_count - 1) :
                              ld_dict[j] = 1})
        /\ Answer.start_ld_id = Head(h2t).start_ld_id]_vars

\* a response whose count covers enabled LDs beyond the limit of the request
C4_Witness ==
    /\ ResponseTo(OPCODE_GET_LD_ALLOCATIONS)
    /\ IsGetResponse(t2h[1])
    /\ outstanding.ld_allocation_list_limit < t2h[1].number_of_lds
    /\ \E j \in DOMAIN ld_dict : ld_dict[j] = 0

(* C5 as stated: the response list holds ld_dict[start_ld_id+i] for i <
   ld_length up to and including the first zero entry, and
   ld_allocation_list_length is its length. *)
C5_ListIncludesFirstZero ==
    [][( /\ Processing(OPCODE_GET_LD_ALLOCATIONS)
         /\ Head(h2t).start_ld_id \in 0..(ld_count - 1) ) =>
        LET s == Head(h2t).start_ld_id
            len == Min(Head(h2t).ld_allocation_list_limit, ld_count - s)
            m == LeadingOnes(ld_dict, s, len)
        IN  /\ Answered
            /\ IsGetResponse(Answer)
            /\ Answer.ld_allocation_list =
                  IF m < len THEN Append(Ones(m), 0) ELSE Ones(m)
            /\ Answer.ld_allocation_list_length =
                  Len(Answer.ld_allocation_list)]_vars

(* C5 amended: the response list holds ld_dict[start_ld_id+i] for i <
   ld_length up to but not including the first zero entry (the leading run
   of 1 bytes), and ld_allocation_list_length is its length. *)
C5_ListStopsBeforeFirstZero ==
    [][( /\ Processing(OPCODE_GET_LD_ALLOCATIONS)
         /\ Head(h2t).start_ld_id \in 0..(ld_count - 1) ) =>
        LET s == Head(h2t).start_ld_id
            len == Min(Head(h2t).ld_allocation_list_limit, ld_count - s)
        IN  /\ Answered
            /\ IsGetResponse(Answer)
            /\ Answer.ld_allocation_list = Ones(LeadingOnes(ld_dict, s, len))
            /\ Answer.ld_allocation_list_length =
                  Len(Answer.ld_allocation_list)]_vars

\* a response cut at a zero entry that lies within the limit, with enabled
\* LDs before and after it
C5_Witness ==
    /\ ResponseTo(OPCODE_GET_LD_ALLOCATIONS)
    /\ IsGetResponse(t2h[1])
    /\ LET s == outstanding.start_ld_id
           n == t2h[1].ld_allocation_list_length
       IN  /\ n >= 1
           /\ n + 1 < outstanding.ld_allocation_list_limit
           /\ s + n + 1 < ld_count
           /\ ld_dict[s + n] = 0
           /\ ld_dict[s + n + 1] = 1

(* C6: Get LD Allocations with start_ld_id outside [0, ld_count) is answered
   with an error status, leaves ld_dict unchanged and the FMLD keeps serving. *)
C6_InvalidStartAnswered ==
    [][( /\ Processing(OPCODE_GET_LD_ALLOCATIONS)
         /\ Head(h2t).start_ld_id \notin 0..(ld_count - 1) ) =>
        /\ Answered
        /\ IsErrorResponse(Answer)
        /\ ld_dict' = ld_dict
        /\ fm_pc' = "running"]_vars

(* C7: a request whose opcode is not 0x5400, 0x5401 or 0x5402 is answered
   with a CciResponse carrying a nonzero return code, and the FMLD keeps
   serving. *)
C7_UnknownOpcodeAnswered ==
    [][\A op \in OtherOpcodes :
          Processing(op) =>
            /\ Answered
            /\ IsErrorResponse(Answer)
            /\ fm_pc' = "running"]_vars

(* C8: the Get LD Info response carries memory_size = ld_count x G with
   G = 256 MiB and the configured ld_count, whatever ld_dict holds. *)
C8_InfoReportsSize ==
    [][Processing(OPCODE_GET_LD_INFO) =>
        /\ Answered
        /\ IsInfoResponse(Answer)
        /\ Answer.memory_size = ld_count * G
        /\ Answer.ld_count = ld_count]_vars

\* a Get LD Info response of a 4-LD device with an LD allocated
C8_Witness ==
    /\ ResponseTo(OPCODE_GET_LD_INFO)
    /\ IsInfoResponse(t2h[1])
    /\ ld_count = 4
    /\ t2h[1].memory_size = 4 * 256 * 1024 * 1024
    /\ \E j \in DOMAIN ld_dict : ld_dict[j] = 0

(* C9: Set LD Allocations clamps number_of_lds to ld_count - start_ld_id:
   only the entries in [start_ld_id, min(start_ld_id + number_of_lds,
   ld_count)) can change, and a request reaching past the last LD is
   answered for the clamped range. *)
C9_SetClampsAndFrames ==
    [][Processing(OPCODE_SET_LD_ALLOCATIONS) =>
        LET p == Head(h2t)
            s == p.start_ld_id
        IN  /\ DOMAIN ld_dict' = DOMAIN ld_dict
            /\ \A j \in DOMAIN ld_dict :
                  j \notin s..(Min(s + p.number_of_lds, ld_count) - 1)
                      => ld_dict'[j] = ld_dict[j]
            /\ Answered
            /\ IsSetResponse(Answer)
            /\ Answer.start_ld_id = s
            /\ Len(Answer.ld_allocation_list) = ClampedNumberOfLds(p)
            /\ fm_pc' = "running"]_vars

\* a response to a request that reached past the last LD, with an LD below
\* start_ld_id still enabled
C9_Witness ==
    /\ ResponseTo(OPCODE_SET_LD_ALLOCATIONS)
    /\ IsSetResponse(t2h[1])
    /\ outstanding.start_ld_id \in 1..(ld_count - 1)
    /\ outstanding.start_ld_id + outstanding.number_of_lds > ld_count
    /\ Len(t2h[1].ld_allocation_list) = ld_count - outstanding.start_ld_id
    /\ \A j \in outstanding.start_ld_id..(ld_count - 1) : ld_dict[j] = 0
    /\ \A j \in 0..(outstanding.start_ld_id - 1) : ld_dict[j] = 1

(* C10: the memory_granularity field of every Get LD Allocations response
   equals the memory granularity of the FMLD. *)
C10_GranularityStamped ==
    \A k \in 1..Len(t2h) :
        IsGetResponse(t2h[k]) => t2h[k].memory_granularity = memory_granularity

----------------------------------------------------------------------------
(* The FMLD with both of its tasks: _process_fm_to_target as above and
   _process_target_to_fm, which forwards what the downstream FIFO delivers *)

\* largest number of packets the downstream device puts
MaxLdPackets == 3
\* largest number of requests and responses the fabric manager leaves in
\* the upstream queues before it sends another request
MaxQueue == 2

\* a packet the downstream logical device puts on downstream target_to_host
DownstreamPacket(n) == [kind |-> "DownstreamPacket", seq |-> n]

IsDownstreamPacket(p) == p # None /\ "seq" \in DOMAIN p

\* the requests of the fabric manager in SpecRelay: one of each command on
\* the first LD, a Get LD Allocations with an invalid start_ld_id, and a
\* command the FMLD does not serve
RelayRequests ==
    {Request(OPCODE_GET_LD_INFO, 0, 0, 0, 0),
     Request(OPCODE_GET_LD_ALLOCATIONS, 0, 1, 0, 0),
     Request(OPCODE_GET_LD_ALLOCATIONS, ld_count, 1, 0, 0),
     Request(OPCODE_SET_LD_ALLOCATIONS, 0, 1, 1, 1)} \cup OtherRequests

\* the state after FMLD.__init__, with or without a downstream FIFO
InitRelay ==
    /\ ld_count \in 1..2
    /\ ld_dict = [i \in 0..(ld_count - 1) |-> 1]
    /\ h2t = <<>>
    /\ t2h = <<>>
    /\ fm_pc = "created"
    /\ stop_called = FALSE
    /\ outstanding = None
    /\ downstream \in BOOLEAN
    /\ RelayIdle
    /\ SwitchIdle

\* bug variant: the packet jumps the queue
forward_put_first(queue, packet) == <<packet>> \o queue

\* target_to_host.put(packet): the packet as it is, behind what is queued
forward_put(queue, packet) == Append(queue, packet)

(* FMLD._process_target_to_fm, first step: it returns when there is no
   downstream FIFO, else it enters the loop *)
TfStart ==
    /\ tf_pc = "started"
    /\ tf_pc' = IF downstream THEN "running" ELSE "done"
    /\ UNCHANGED <<fmld_vars, downstream, ds_t2h, ld_sent, run_pc>>
    /\ UNCHANGED <<switch_vars, irq_vars>>
    /\ UNCHANGED ext_vars

\* one iteration of the loop: a packet of the downstream device
TfForward ==
    /\ tf_pc = "running"
    /\ ds_t2h # <<>>
    /\ Head(ds_t2h) # None
    /\ ds_t2h' = Tail(ds_t2h)
    /\ t2h' = forward_put(t2h, Head(ds_t2h))
    /\ UNCHANGED <<ld_count, ld_dict, h2t, fm_pc, stop_called, outstanding>>
    /\ UNCHANGED <<downstream, tf_pc, ld_sent, run_pc, switch_vars, irq_vars>>
    /\ UNCHANGED ext_vars

\* packet is None: the loop breaks
TfStopped ==
    /\ tf_pc = "running"
    /\ ds_t2h # <<>>
    /\ Head(ds_t2h) = None
    /\ ds_t2h' = Tail(ds_t2h)
    /\ tf_pc' = "stopped"
    /\ UNCHANGED <<fmld_vars, downstream, ld_sent, run_pc>>
    /\ UNCHANGED <<switch_vars, irq_vars>>
    /\ UNCHANGED ext_vars

(* FMLD._run, the end of its gather: it returns when both tasks have
   returned, and raises as soon as one task has raised; gather is called
   without return_exceptions and cancels no task *)
RunReturned ==
    /\ run_pc = "gather"
    /\ fm_pc = "stopped"
    /\ tf_pc \in {"done", "stopped"}
    /\ run_pc' = "returned"
    /\ UNCHANGED <<fmld_vars, downstream, ds_t2h, tf_pc, ld_sent>>
    /\ UNCHANGED <<switch_vars, irq_vars>>
    /\ UNCHANGED ext_vars

RunRaised ==
    /\ run_pc = "gather"
    /\ fm_pc = "failed"
    /\ run_pc' = "raised"
    /\ UNCHANGED <<fmld_vars, downstream, ds_t2h, tf_pc, ld_sent>>
    /\ UNCHANGED <<switch_vars, irq_vars>>
    /\ UNCHANGED ext_vars

(* The downstream logical device: it puts a packet on downstream
   target_to_host *)
LdSend ==
    /\ downstream
    /\ ld_sent < MaxLdPackets
    /\ ld_sent' = ld_sent + 1
    /\ ds_t2h' = Append(ds_t2h, DownstreamPacket(ld_sent + 1))
    /\ UNCHANGED <<fmld_vars, downstream, tf_pc, run_pc>>
    /\ UNCHANGED <<switch_vars, irq_vars>>
    /\ UNCHANGED ext_vars

(* The fabric manager of SpecRelay: it sends a request while fewer than
   MaxQueue packets wait in the upstream queues *)
FmSend ==
    /\ Len(h2t) + Len(t2h) < MaxQueue
    /\ \E req \in RelayRequests :
          /\ h2t' = Append(h2t, req)
          /\ outstanding' = req
    /\ UNCHANGED <<ld_count, ld_dict, t2h, fm_pc, stop_called>>
    /\ UNCHANGED <<relay_vars, switch_vars, irq_vars>>
    /\ UNCHANGED ext_vars

NextRelay ==
    \/ Run
    \/ FmStopped
    \/ FmGetLdInfo
    \/ FmGetLdAllocations
    \/ FmSetLdAllocations
    \/ FmOtherOpcode
    \/ Stop
    \/ TfStart
    \/ TfForward
    \/ TfStopped
    \/ RunReturned
    \/ RunRaised
    \/ LdSend
    \/ FmSend
    \/ HostReceive

SpecRelay == InitRelay /\ [][NextRelay]_vars

----------------------------------------------------------------------------
(* Properties of the forwarding task *)

\* the packets of the downstream device that are on their way to the
\* fabric manager: those forwarded and not yet read, then those queued
LdPacketsInFlight ==
    SelectSeq(t2h, IsDownstreamPacket) \o SelectSeq(ds_t2h, IsDownstreamPacket)

ForwardOrderKept ==
    \A i \in 1..(Len(LdPacketsInFlight) - 1) :
        LdPacketsInFlight[i + 1].seq = LdPacketsInFlight[i].seq + 1

\* the forwarding task takes the oldest packet of downstream target_to_host
TfTakes ==
    /\ tf_pc = "running"
    /\ ds_t2h # <<>>
    /\ ds_t2h' = Tail(ds_t2h)

\* C11: with a downstream FIFO, every packet the forwarding task takes from
\* downstream target_to_host before the sentinel is put unchanged at the end
\* of upstream target_to_host, and the packets of the downstream device
\* stay in the order they were sent; without a downstream FIFO the task
\* ends at its first step, no queue is changed by that step, and nothing
\* is ever forwarded.
C11_ForwardsVerbatimInOrder ==
    /\ [](ForwardOrderKept)
    /\ [](~downstream => tf_pc # "running" /\ ds_t2h = <<>>)
    /\ [][/\ (TfTakes /\ Head(ds_t2h) # None)
                 => t2h' = Append(t2h, Head(ds_t2h))
          /\ (~downstream /\ tf_pc = "started" /\ tf_pc' # tf_pc)
                 => tf_pc' = "done" /\ UNCHANGED <<h2t, t2h, ds_t2h>>]_vars

\* two packets of the downstream device have been forwarded and wait for
\* the fabric manager, and the device has sent all its packets
C11_Witness ==
    /\ downstream
    /\ ld_sent = MaxLdPackets
    /\ Len(SelectSeq(t2h, IsDownstreamPacket)) >= 2

\* C20: when _run has ended with the failure of one child task, the other
\* child task is not running any more.
C20_SiblingStopsWithFailure == run_pc = "raised" => tf_pc # "running"

----------------------------------------------------------------------------
(* The virtual switch: CxlVirtualSwitch of virtual_switch.py with the IRQ
   manager of irq_manager.py.  The routing table, the downstream vPPBs, the
   port binder, the routers and the base class RunnableComponent live in
   other modules of the repository; the model gives them the behaviour the
   specification states for them: the routing table keeps an active flag
   per vPPB, a vPPB is attached to one port or none, the port binder
   refuses to bind a bound vPPB and to unbind a vPPB that is not bound, and
   a sub-component is ready when it runs and its run task ends when it is
   stopped. *)

\* number of physical ports of the switch; port 0 is the upstream port
NumPorts == 3
\* vppb_counts
NumVppb == 2
\* the id the switch is constructed with
VcsId == 1
\* largest number of bind/unbind calls the fabric manager makes
MaxCalls == 2
\* largest number of IRQ connections opened with start_connection
MaxConnections == 1
\* largest number of IRQ messages the host sends to the switch
MaxIrqTasks == 1

\* PPB_BINDING_STATUS
UNBOUND == 0
BIND_OR_UNBIND_IN_PROGRESS == 1
BOUND_PHYSICAL_PORT == 2
BOUND_LD == 3

\* Irq
DEV_REMOVED == 5
DEV_ADDED == 6

Vppbs == 0..(NumVppb - 1)

\* the arguments a caller passes as port_index: every index of a port, one
\* below and one above
PortIndexes == -1..NumPorts

\* CxlVirtualSwitch._physical_ports: the device type of each port
physical_ports == [p \in 0..(NumPorts - 1) |-> IF p = 0 THEN "USP" ELSE "DSP"]

\* self._physical_ports[port_index]: a Python list takes a negative index
\* from its end
port_device(port_index) ==
    physical_ports[IF port_index < 0 THEN port_index + NumPorts ELSE port_index]

Routers == {"io_router", "mem_router", "cache_router"}

SubComponents == Routers \cup {"irq_manager", "port_binder"}

\* there is no FMLD
FmldIdle ==
    /\ ld_count = 0
    /\ ld_dict = <<>>
    /\ h2t = <<>>
    /\ t2h = <<>>
    /\ fm_pc = "none"
    /\ stop_called = FALSE
    /\ outstanding = None
    /\ downstream = FALSE
    /\ RelayIdle

\* the state after CxlVirtualSwitch.__init__
InitSwitch ==
    /\ initial_bounds \in [Vppbs -> PortIndexes]
    /\ rt_active = [v \in Vppbs |-> FALSE]
    /\ vppb_port = [v \in Vppbs |-> -1]
    /\ bind_state = [v \in Vppbs |-> -1]
    /\ event_handler = FALSE
    /\ call = NoCall
    /\ calls_made = 0
    /\ sw_pc = "created"
    /\ applied = 0
    /\ sw_status = "created"
    /\ sub_status = [c \in SubComponents |->
                        IF c \in Routers THEN "none" ELSE "created"]
    /\ stop_pc = "created"
    /\ irq_connections = 0
    /\ irq_wire = <<>>
    /\ irq_mgr_tasks = <<>>
    /\ irq_handlers = <<>>
    /\ irq_tasks = <<>>
    /\ FmldIdle
    /\ ExtIdle

(* CxlVirtualSwitch._call_event_handler: what the handler has been given so
   far; an entry holds the event and what the handler finds in the routing
   table for the vPPB when it is called *)
SwitchUpdateEvent(vppb_id, binding_status) ==
    [vcs_id |-> VcsId, vppb_id |-> vppb_id, binding_status |-> binding_status]

call_event_handler(log, vppb_id, binding_status, active) ==
    IF ~event_handler
    THEN log
    ELSE Append(log, [kind |-> "event",
                      event |-> SwitchUpdateEvent(vppb_id, binding_status),
                      active |-> active])

\* bug variant: a negative port_index passes the check
port_index_out_of_bound_above(port_index) == port_index >= NumPorts

\* the check bind_vppb starts with
port_index_out_of_bound(port_index) ==
    port_index < 0 \/ port_index >= NumPorts

\* RoutingTable.activate_vppb and deactivate_vppb
activate_vppb(table, vppb_index) == [table EXCEPT ![vppb_index] = TRUE]

deactivate_vppb(table, vppb_index) == [table EXCEPT ![vppb_index] = FALSE]

\* the status the last event of a bind carries
bind_final_status_physical_port == BOUND_PHYSICAL_PORT

bind_final_status == BOUND_LD

\* a call is over
Over(c) == c.pc \in {"idle", "done", "raised"}

NewCall(caller, op, port_index, vppb_index) ==
    [op |-> op, port_index |-> port_index, vppb_index |-> vppb_index,
     pc |-> "start", caller |-> caller, error |-> "",
     had_handler |-> event_handler, log |-> <<>>]

Raised(c, error) == [c EXCEPT !.pc = "raised", !.error = error]

\* the call goes on as c; when it is a call of _bind_initial_vppb that has
\* returned, the loop goes to its next element, and when it has raised,
\* the exception ends _run
Continue(c) ==
    /\ call' = c
    /\ applied' = IF c.caller = "run" /\ c.pc = "done"
                  THEN applied + 1 ELSE applied
    /\ sw_pc' = IF c.caller = "run" /\ c.pc = "raised"
                THEN "failed" ELSE sw_pc

\* where a call is when bind_vppb or unbind_vppb has returned
AfterReturn(c) == IF c.op \in {"fm_bind_vppb", "fm_unbind_vppb"}
                  THEN "send_irq" ELSE "done"

(* CxlVirtualSwitch.bind_vppb up to its first await: the range check, the
   activation of the routing-table entry, the check of the port type, the
   attachment of the vPPB and the first event *)
BindBegin(caller, op, port_index, vppb_index) ==
    LET c == NewCall(caller, op, port_index, vppb_index)
    IN  IF port_index_out_of_bound(port_index)
        THEN /\ Continue(Raised(c, "port_index is out of bound"))
             /\ UNCHANGED <<rt_active, vppb_port>>
        ELSE /\ rt_active' = activate_vppb(rt_active, vppb_index)
             /\ IF port_device(port_index) # "DSP"
                THEN /\ Continue(Raised(c, "physical port is not DSP"))
                     /\ vppb_port' = vppb_port
                ELSE /\ vppb_port' = [vppb_port EXCEPT ![vppb_index] = port_index]
                     /\ Continue([c EXCEPT
                            !.pc = "bind_binder",
                            !.log = call_event_handler(
                                        <<>>, vppb_index,
                                        BIND_OR_UNBIND_IN_PROGRESS,
                                        rt_active'[vppb_index])])

(* CxlVirtualSwitch.unbind_vppb up to its first await: the first event *)
UnbindBegin(caller, op, vppb_index) ==
    LET c == NewCall(caller, op, -1, vppb_index)
    IN  /\ Continue([c EXCEPT
               !.pc = "unbind_binder",
               !.log = call_event_handler(<<>>, vppb_index,
                                          BIND_OR_UNBIND_IN_PROGRESS,
                                          rt_active[vppb_index])])
        /\ UNCHANGED <<rt_active, vppb_port>>

\* what a step of a call leaves alone besides the switch's tables
CallFrame ==
    /\ UNCHANGED <<fmld_vars, relay_vars>>
    /\ UNCHANGED <<initial_bounds, event_handler, sw_status, sub_status, stop_pc>>
    /\ UNCHANGED <<irq_connections, irq_mgr_tasks, irq_handlers, irq_tasks>>
    /\ UNCHANGED ext_vars

(* PortBinder.bind_vppb, awaited by bind_vppb: a bound vPPB is refused *)
BindBinder ==
    /\ call.pc = "bind_binder"
    /\ IF bind_state[call.vppb_index] # -1
       THEN /\ Continue(Raised(call, "vPPB is already bound"))
            /\ bind_state' = bind_state
       ELSE /\ bind_state' = [bind_state EXCEPT
                                 ![call.vppb_index] = call.port_index]
            /\ Continue([call EXCEPT !.pc = "bind_final"])
    /\ UNCHANGED <<rt_active, vppb_port, calls_made, irq_wire>>
    /\ CallFrame

\* the last event of bind_vppb
BindFinal ==
    /\ call.pc = "bind_final"
    /\ Continue([call EXCEPT
           !.pc = AfterReturn(call),
           !.log = call_event_handler(call.log, call.vppb_index,
                                      bind_final_status,
                                      rt_active[call.vppb_index])])
    /\ UNCHANGED <<rt_active, vppb_port, bind_state, calls_made, irq_wire>>
    /\ CallFrame

(* PortBinder.unbind_vppb, awaited by unbind_vppb: a vPPB that is not bound
   is refused *)
UnbindBinder ==
    /\ call.pc = "unbind_binder"
    /\ IF bind_state[call.vppb_index] = -1
       THEN /\ Continue(Raised(call, "vPPB is not bound"))
            /\ bind_state' = bind_state
       ELSE /\ bind_state' = [bind_state EXCEPT ![call.vppb_index] = -1]
            /\ Continue([call EXCEPT !.pc = "unbind_final"])
    /\ UNCHANGED <<rt_active, vppb_port, calls_made, irq_wire>>
    /\ CallFrame

\* the UNBOUND event of unbind_vppb
UnbindFinal ==
    /\ call.pc = "unbind_final"
    /\ Continue([call EXCEPT
           !.pc = "unbind_detach",
           !.log = call_event_handler(call.log, call.vppb_index, UNBOUND,
                                      rt_active[call.vppb_index])])
    /\ UNCHANGED <<rt_active, vppb_port, bind_state, calls_made, irq_wire>>
    /\ CallFrame

\* the end of unbind_vppb: the vPPB is detached from its port, then the
\* routing-table entry is deactivated
UnbindDetach ==
    /\ call.pc = "unbind_detach"
    /\ vppb_port' = [vppb_port EXCEPT ![call.vppb_index] = -1]
    /\ rt_active' = deactivate_vppb(rt_active, call.vppb_index)
    /\ Continue([call EXCEPT !.pc = AfterReturn(call)])
    /\ UNCHANGED <<bind_state, calls_made, irq_wire>>
    /\ CallFrame

\* bug variant: both calls announce a removed device
fm_irq_always_removed(op) == DEV_REMOVED

\* the Irq fm_bind_vppb and fm_unbind_vppb send
fm_irq(op) == IF op = "fm_bind_vppb" THEN DEV_ADDED ELSE DEV_REMOVED

\* (request.value << 8 | device_id).to_bytes(length=IRQ_WIDTH) for a
\* device_id below 256: two bytes, the high one first
irq_frame(request, device_id) ==
    <<((request * 256 + device_id) \div 256) % 256,
      (request * 256 + device_id) % 256>>

(* IrqManager.send_irq_request, awaited by fm_bind_vppb and fm_unbind_vppb
   when bind_vppb or unbind_vppb has returned: indexing _connections raises
   when no connection was opened *)
FmSendIrq ==
    /\ call.pc = "send_irq"
    /\ IF irq_connections = 0
       THEN /\ Continue(Raised(call, "list index out of range"))
            /\ irq_wire' = irq_wire
       ELSE /\ irq_wire' = Append(irq_wire, irq_frame(fm_irq(call.op), VcsId))
            /\ Continue([call EXCEPT
                   !.pc = "done",
                   !.log = Append(call.log,
                                  [kind |-> "irq",
                                   frame |-> irq_frame(fm_irq(call.op), VcsId)])])
    /\ UNCHANGED <<rt_active, vppb_port, bind_state, calls_made>>
    /\ CallFrame

(* The fabric manager: it calls one of the four methods of a running switch
   when its last call is over *)
FmBind ==
    /\ sw_status = "running"
    /\ Over(call)
    /\ calls_made < MaxCalls
    /\ calls_made' = calls_made + 1
    /\ \E op \in {"bind_vppb", "fm_bind_vppb"}, p \in PortIndexes, v \in Vppbs :
          BindBegin("fm", op, p, v)
    /\ UNCHANGED <<bind_state, irq_wire>>
    /\ CallFrame

FmUnbind ==
    /\ sw_status = "running"
    /\ Over(call)
    /\ calls_made < MaxCalls
    /\ calls_made' = calls_made + 1
    /\ \E op \in {"unbind_vppb", "fm_unbind_vppb"}, v \in Vppbs :
          UnbindBegin("fm", op, v)
    /\ UNCHANGED <<bind_state, irq_wire>>
    /\ CallFrame

\* register_event_handler
RegisterEventHandler ==
    /\ ~event_handler
    /\ event_handler' = TRUE
    /\ UNCHANGED <<fmld_vars, relay_vars, irq_vars>>
    /\ UNCHANGED <<initial_bounds, rt_active, vppb_port, bind_state, call,
                   calls_made, sw_pc, applied, sw_status, sub_status, stop_pc>>
    /\ UNCHANGED ext_vars

(* CxlVirtualSwitch._run *)

\* run() is called: _run begins with _bind_initial_vppb
SwRun ==
    /\ sw_pc = "created"
    /\ sw_pc' = "bind_initial"
    /\ UNCHANGED <<fmld_vars, relay_vars, irq_vars>>
    /\ UNCHANGED <<initial_bounds, rt_active, vppb_port, bind_state,
                   event_handler, call, calls_made, applied, sw_status,
                   sub_status, stop_pc>>
    /\ UNCHANGED ext_vars

\* _bind_initial_vppb: the next element of initial_bounds
RunApply ==
    /\ sw_pc = "bind_initial"
    /\ Over(call)
    /\ applied < NumVppb
    /\ IF initial_bounds[applied] = -1
       THEN UnbindBegin("run", "unbind_vppb", applied)
       ELSE BindBegin("run", "bind_vppb", initial_bounds[applied], applied)
    /\ UNCHANGED <<bind_state, calls_made, irq_wire>>
    /\ CallFrame

\* init_routers
RunInitRouters ==
    /\ sw_pc = "bind_initial"
    /\ applied = NumVppb
    /\ sub_status' = [c \in SubComponents |->
                         IF c \in Routers THEN "created" ELSE sub_status[c]]
    /\ sw_pc' = "start"
    /\ UNCHANGED <<fmld_vars, relay_vars, irq_vars>>
    /\ UNCHANGED <<initial_bounds, rt_active, vppb_port, bind_state,
                   event_handler, call, calls_made, applied, sw_status,
                   stop_pc>>
    /\ UNCHANGED ext_vars

\* the run task and the wait_for_ready task of each sub-component are
\* created, and _run waits for the wait_for_ready tasks
RunStart ==
    /\ sw_pc = "start"
    /\ sub_status' = [c \in SubComponents |-> "starting"]
    /\ sw_pc' = "wait_ready"
    /\ UNCHANGED <<fmld_vars, relay_vars, irq_vars>>
    /\ UNCHANGED <<initial_bounds, rt_active, vppb_port, bind_state,
                   event_handler, call, calls_made, applied, sw_status,
                   stop_pc>>
    /\ UNCHANGED ext_vars

\* a sub-component reports ready; IrqManager._run then creates the task
\* that waits for the end signal
SubReady ==
    \E c \in SubComponents :
        /\ sub_status[c] = "starting"
        /\ sub_status' = [sub_status EXCEPT ![c] = "running"]
        /\ irq_mgr_tasks' = IF c = "irq_manager"
                            THEN Append(irq_mgr_tasks, "running")
                            ELSE irq_mgr_tasks
        /\ UNCHANGED <<fmld_vars, relay_vars>>
        /\ UNCHANGED <<initial_bounds, rt_active, vppb_port, bind_state,
                       event_handler, call, calls_made, sw_pc, applied,
                       sw_status, stop_pc>>
        /\ UNCHANGED <<irq_connections, irq_wire, irq_handlers, irq_tasks>>
        /\ UNCHANGED ext_vars

\* bug variant: _run waits for the IRQ manager only
wait_tasks_done_irq_manager_only(status) == status["irq_manager"] = "running"

\* gather of the wait_for_ready tasks has returned
wait_tasks_done(status) == \A c \in SubComponents : status[c] = "running"

\* _change_status_to_running, then _run waits for the run tasks
RunRunning ==
    /\ sw_pc = "wait_ready"
    /\ wait_tasks_done(sub_status)
    /\ sw_status' = "running"
    /\ sw_pc' = "gather"
    /\ UNCHANGED <<fmld_vars, relay_vars, irq_vars>>
    /\ UNCHANGED <<initial_bounds, rt_active, vppb_port, bind_state,
                   event_handler, call, calls_made, applied, sub_status,
                   stop_pc>>
    /\ UNCHANGED ext_vars

\* every run task has ended: _run returns
RunEnd ==
    /\ sw_pc = "gather"
    /\ \A c \in SubComponents : sub_status[c] = "stopped"
    /\ sw_pc' = "returned"
    /\ UNCHANGED <<fmld_vars, relay_vars, irq_vars>>
    /\ UNCHANGED <<initial_bounds, rt_active, vppb_port, bind_state,
                   event_handler, call, calls_made, applied, sw_status,
                   sub_status, stop_pc>>
    /\ UNCHANGED ext_vars

(* The IRQ manager of the switch, a client (server=False) *)

\* task.cancel() on every task of a list: a task that has ended stays so
cancel_all(tasks) ==
    [i \in 1..Len(tasks) |-> IF tasks[i] = "running" THEN "cancelled" ELSE tasks[i]]

\* bug variant: the callback tasks are left alone
cancel_irq_tasks_none(tasks) == tasks

\* the first loop of IrqManager._stop
cancel_irq_tasks(tasks) == cancel_all(tasks)

\* bug variant: the connection handlers are left alone
cancel_irq_handlers_none(tasks) == tasks

\* the last loop of IrqManager._stop
cancel_irq_handlers(tasks) == cancel_all(tasks)

\* start_connection: the connection is recorded and its handler task made
IrqStartConnection ==
    /\ stop_pc = "created"
    /\ irq_connections < MaxConnections
    /\ irq_connections' = irq_connections + 1
    /\ irq_handlers' = Append(irq_handlers, "running")
    /\ UNCHANGED <<fmld_vars, relay_vars, switch_vars>>
    /\ UNCHANGED <<irq_wire, irq_mgr_tasks, irq_tasks>>
    /\ UNCHANGED ext_vars

(* IrqManager._irq_handler, one message of the host: with a handler
   registered for the host the callback task is created and the loop goes
   on; with a general handler only, the callback task is created and the
   handler returns; with neither it raises *)
IrqReceive ==
    \E h \in 1..Len(irq_handlers),
       registered \in {"specific", "general", "none"} :
        /\ irq_handlers[h] = "running"
        /\ Len(irq_tasks) < MaxIrqTasks
        /\ irq_tasks' = IF registered = "none"
                        THEN irq_tasks
                        ELSE Append(irq_tasks, "running")
        /\ irq_handlers' = IF registered = "specific"
                           THEN irq_handlers
                           ELSE [irq_handlers EXCEPT ![h] = "finished"]
        /\ UNCHANGED <<fmld_vars, relay_vars, switch_vars>>
        /\ UNCHANGED <<irq_connections, irq_wire, irq_mgr_tasks>>
        /\ UNCHANGED ext_vars

\* a callback task ends
IrqTaskDone ==
    \E t \in 1..Len(irq_tasks) :
        /\ irq_tasks[t] = "running"
        /\ irq_tasks' = [irq_tasks EXCEPT ![t] = "finished"]
        /\ UNCHANGED <<fmld_vars, relay_vars, switch_vars>>
        /\ UNCHANGED <<irq_connections, irq_wire, irq_mgr_tasks, irq_handlers>>
        /\ UNCHANGED ext_vars

(* CxlVirtualSwitch.stop *)

\* _stop creates a task for the stop() of each sub-component and waits
SwStop ==
    /\ sw_status = "running"
    /\ stop_pc = "created"
    /\ stop_pc' = "gather"
    /\ UNCHANGED <<fmld_vars, relay_vars, irq_vars>>
    /\ UNCHANGED <<initial_bounds, rt_active, vppb_port, bind_state,
                   event_handler, call, calls_made, sw_pc, applied,
                   sw_status, sub_status>>
    /\ UNCHANGED ext_vars

\* stop() of a router or of the port binder: its run task ends
SubStop ==
    \E c \in SubComponents \ {"irq_manager"} :
        /\ stop_pc = "gather"
        /\ sub_status[c] = "running"
        /\ sub_status' = [sub_status EXCEPT ![c] = "stopped"]
        /\ UNCHANGED <<fmld_vars, relay_vars, irq_vars>>
        /\ UNCHANGED <<initial_bounds, rt_active, vppb_port, bind_state,
                       event_handler, call, calls_made, sw_pc, applied,
                       sw_status, stop_pc>>
        /\ UNCHANGED ext_vars

\* IrqManager._stop: the callback tasks, the tasks of _tasks and the
\* connection handlers are cancelled; _run of the IRQ manager ends
IrqStop ==
    /\ stop_pc = "gather"
    /\ sub_status["irq_manager"] = "running"
    /\ irq_tasks' = cancel_irq_tasks(irq_tasks)
    /\ irq_mgr_tasks' = cancel_all(irq_mgr_tasks)
    /\ irq_handlers' = cancel_irq_handlers(irq_handlers)
    /\ sub_status' = [sub_status EXCEPT !["irq_manager"] = "stopped"]
    /\ UNCHANGED <<fmld_vars, relay_vars, irq_connections, irq_wire>>
    /\ UNCHANGED <<initial_bounds, rt_active, vppb_port, bind_state,
                   event_handler, call, calls_made, sw_pc, applied,
                   sw_status, stop_pc>>
    /\ UNCHANGED ext_vars

\* the five stop tasks are done: stop() returns
SwStopped ==
    /\ stop_pc = "gather"
    /\ \A c \in SubComponents : sub_status[c] = "stopped"
    /\ stop_pc' = "returned"
    /\ sw_status' = "stopped"
    /\ UNCHANGED <<fmld_vars, relay_vars, irq_vars>>
    /\ UNCHANGED <<initial_bounds, rt_active, vppb_port, bind_state,
                   event_handler, call, calls_made, sw_pc, applied,
                   sub_status>>
    /\ UNCHANGED ext_vars

\* the switch from run() on and the calls of the fabric manager
NextSwitch ==
    \/ SwRun
    \/ RunApply
    \/ RunInitRouters
    \/ RunStart
    \/ SubReady
    \/ RunRunning
    \/ FmBind
    \/ FmUnbind
    \/ BindBinder
    \/ BindFinal
    \/ UnbindBinder
    \/ UnbindFinal
    \/ UnbindDetach
    \/ FmSendIrq
    \/ RegisterEventHandler
    \/ IrqStartConnection

SpecSwitch == InitSwitch /\ [][NextSwitch]_vars

\* the switch from run() to the return of stop() and the tasks of its IRQ
\* manager, with no call of the fabric manager
NextSwitchStop ==
    \/ SwRun
    \/ RunApply
    \/ BindBinder
    \/ BindFinal
    \/ UnbindBinder
    \/ RunInitRouters
    \/ RunStart
    \/ SubReady
    \/ RunRunning
    \/ IrqStartConnection
    \/ IrqReceive
    \/ IrqTaskDone
    \/ SwStop
    \/ SubStop
    \/ IrqStop
    \/ SwStopped
    \/ RunEnd

SpecSwitchStop == InitSwitch /\ [][NextSwitchStop]_vars

----------------------------------------------------------------------------
(* Properties of the virtual switch *)

\* a step in which bind_vppb, unbind_vppb, fm_bind_vppb or fm_unbind_vppb
\* is called
CallStarts ==
    /\ Over(call)
    /\ call' # call \/ calls_made' # calls_made \/ sw_pc' = "failed"
    /\ ~Over(call') \/ call'.pc = "raised"

BindOps == {"bind_vppb", "fm_bind_vppb"}

UnbindOps == {"unbind_vppb", "fm_unbind_vppb"}

IsEvent(e) == e.kind = "event"

IsIrq(e) == e.kind = "irq"

\* the events the handler was given during the call, in order
Events(c) ==
    LET es == SelectSeq(c.log, IsEvent)
    IN  [i \in 1..Len(es) |-> es[i].event]

\* bind_vppb or unbind_vppb of the call has returned
Returned(c) ==
    \/ c.pc \in {"send_irq", "done"}
    \/ c.pc = "raised" /\ c.error = "list index out of range"

\* C12: a bind_vppb call with the index of a port that is not a DSP raises
\* with the routing table, the attachment of the vPPBs and the port binder
\* as they were, and with no event delivered.
C12_NotDspRaisesUnchanged ==
    [][(/\ CallStarts
        /\ call'.op \in BindOps
        /\ call'.port_index \in 0..(NumPorts - 1)
        /\ physical_ports[call'.port_index] # "DSP")
       => /\ call'.pc = "raised"
          /\ call'.log = <<>>
          /\ UNCHANGED <<rt_active, vppb_port, bind_state>>]_vars

\* C13: a bind_vppb call with port_index < 0 or port_index >= the number
\* of physical ports raises with the routing table, the attachment of the
\* vPPBs and the port binder as they were, with no event delivered and
\* nothing written to the IRQ connection.
C13_OutOfBoundRaisesUnchanged ==
    [][(/\ CallStarts
        /\ call'.op \in BindOps
        /\ (call'.port_index < 0 \/ call'.port_index >= NumPorts))
       => /\ call'.pc = "raised"
          /\ call'.error = "port_index is out of bound"
          /\ call'.log = <<>>
          /\ UNCHANGED <<rt_active, vppb_port, bind_state, irq_wire>>]_vars

\* the fabric manager has bound a vPPB and then called bind_vppb with
\* port_index = -1 for a vPPB whose routing-table entry is inactive: the
\* call has raised
C13_Witness ==
    /\ call.caller = "fm"
    /\ call.op = "bind_vppb"
    /\ call.port_index = -1
    /\ call.pc = "raised"
    /\ ~rt_active[call.vppb_index]
    /\ \E v \in Vppbs : bind_state[v] # -1

\* C14: no two vPPBs are bound to the same DSP (the port binder holds one
\* port per vPPB, so no vPPB is bound to two).
C14_OneVppbPerDsp ==
    \A v1, v2 \in Vppbs :
        (v1 # v2 /\ bind_state[v1] # -1) => bind_state[v1] # bind_state[v2]

\* C15: the handler finds the routing-table entry of the vPPB active when
\* it is given BOUND_LD and inactive when it is given UNBOUND.
C15_RoutingUpdatedBeforeFinalEvent ==
    \A i \in 1..Len(call.log) :
        IsEvent(call.log[i]) =>
            /\ call.log[i].event.binding_status = BOUND_LD
                   => call.log[i].active
            /\ call.log[i].event.binding_status = UNBOUND
                   => ~call.log[i].active

\* C16: a bind_vppb that returns with a handler registered since it began
\* has delivered BIND_OR_UNBIND_IN_PROGRESS then BOUND_LD, an unbind_vppb
\* BIND_OR_UNBIND_IN_PROGRESS then UNBOUND, and nothing else; every event
\* ever delivered carries the id of the switch, the vPPB of the call and
\* one of these three statuses; with no handler registered a call that
\* returns has delivered no event.
C16_TwoEventsPerCall ==
    /\ (Returned(call) /\ call.had_handler /\ call.op \in BindOps)
          => Events(call) =
                <<[vcs_id |-> VcsId, vppb_id |-> call.vppb_index,
                   binding_status |-> BIND_OR_UNBIND_IN_PROGRESS],
                  [vcs_id |-> VcsId, vppb_id |-> call.vppb_index,
                   binding_status |-> BOUND_LD]>>
    /\ (Returned(call) /\ call.had_handler /\ call.op \in UnbindOps)
          => Events(call) =
                <<[vcs_id |-> VcsId, vppb_id |-> call.vppb_index,
                   binding_status |-> BIND_OR_UNBIND_IN_PROGRESS],
                  [vcs_id |-> VcsId, vppb_id |-> call.vppb_index,
                   binding_status |-> UNBOUND]>>
    /\ \A i \in 1..Len(Events(call)) :
          /\ Events(call)[i].vcs_id = VcsId
          /\ Events(call)[i].vppb_id = call.vppb_index
          /\ Events(call)[i].binding_status \in
                {BIND_OR_UNBIND_IN_PROGRESS, BOUND_LD, UNBOUND}
    /\ ~event_handler => Events(call) = <<>>

\* the fabric manager's bind_vppb has returned with a handler registered
\* and two events delivered
C16_Witness ==
    /\ call.caller = "fm"
    /\ call.op = "bind_vppb"
    /\ call.pc = "done"
    /\ call.had_handler
    /\ Len(Events(call)) = 2

\* the IRQ frames written during the call
IrqFrames(c) ==
    LET fs == SelectSeq(c.log, IsIrq)
    IN  [i \in 1..Len(fs) |-> fs[i].frame]

\* C17: fm_bind_vppb that has returned has written exactly one frame, a
\* DEV_ADDED of this switch, and fm_unbind_vppb exactly one DEV_REMOVED; the
\* frame is the last thing of the call, written when bind_vppb has bound
\* the vPPB or unbind_vppb has unbound it and deactivated its routing-table
\* entry; a call that has not returned or has raised, and a plain bind_vppb
\* or unbind_vppb, has written no frame.
C17_OneIrqAfterCompletion ==
    /\ [](/\ (call.pc = "done" /\ call.op = "fm_bind_vppb")
                => IrqFrames(call) = <<<<DEV_ADDED, VcsId>>>>
          /\ (call.pc = "done" /\ call.op = "fm_unbind_vppb")
                => IrqFrames(call) = <<<<DEV_REMOVED, VcsId>>>>
          /\ (call.pc # "done" \/ call.op \notin {"fm_bind_vppb", "fm_unbind_vppb"})
                => IrqFrames(call) = <<>>
          /\ IrqFrames(call) # <<>> => IsIrq(call.log[Len(call.log)]))
    /\ [][irq_wire' # irq_wire
            => /\ call.pc = "send_irq"
               /\ call'.pc = "done"
               /\ irq_wire' = Append(irq_wire, IrqFrames(call')[1])
               /\ call.op = "fm_bind_vppb"
                     => bind_state[call.vppb_index] = call.port_index
               /\ call.op = "fm_unbind_vppb"
                     => /\ bind_state[call.vppb_index] = -1
                        /\ ~rt_active[call.vppb_index]
               /\ call.had_handler
                     => Events(call)[Len(Events(call))].binding_status
                            \in {BOUND_LD, UNBOUND}]_vars

\* fm_unbind_vppb and then fm_bind_vppb have returned: a DEV_REMOVED and a
\* DEV_ADDED frame are on the connection
C17_Witness ==
    /\ call.op = "fm_bind_vppb"
    /\ call.pc = "done"
    /\ irq_wire = <<<<DEV_REMOVED, VcsId>>, <<DEV_ADDED, VcsId>>>>

\* C18: the switch reports Running only when every element of
\* initial_bounds has been applied, the routers are constructed and every
\* sub-component is ready; the routers are constructed only when
\* initial_bounds has been applied, and a sub-component is started only
\* when the routers are constructed.
C18_RunningAfterStartup ==
    /\ sw_status = "running"
          => /\ applied = NumVppb
             /\ \A c \in SubComponents : sub_status[c] = "running"
             /\ calls_made = 0 /\ Over(call) => bind_state = initial_bounds
    /\ (\E c \in Routers : sub_status[c] # "none") => applied = NumVppb
    /\ (\E c \in SubComponents : sub_status[c] \in {"starting", "running"})
          => \A r \in Routers : sub_status[r] # "none"

\* the switch reports Running with its vPPBs bound as initial_bounds says
C18_Witness ==
    /\ sw_status = "running"
    /\ calls_made = 0
    /\ bind_state = initial_bounds
    /\ \A c \in SubComponents : sub_status[c] = "running"

\* C19: when stop() has returned, the run task of every sub-component has
\* ended and every task of the IRQ manager (its own tasks, the connection
\* handlers and the callback tasks) has ended or been cancelled.
C19_NoTaskAfterStop ==
    stop_pc = "returned"
       => /\ \A c \in SubComponents : sub_status[c] = "stopped"
          /\ \A i \in 1..Len(irq_mgr_tasks) : irq_mgr_tasks[i] # "running"
          /\ \A i \in 1..Len(irq_handlers) : irq_handlers[i] # "running"
          /\ \A i \in 1..Len(irq_tasks) : irq_tasks[i] # "running"

\* stop() has returned and has cancelled a connection handler and a
\* callback task that were running
C19_Witness ==
    /\ stop_pc = "returned"
    /\ \E i \in 1..Len(irq_handlers) : irq_handlers[i] = "cancelled"
    /\ \E i \in 1..Len(irq_tasks) : irq_tasks[i] = "cancelled"
    /\ \E i \in 1..Len(irq_mgr_tasks) : irq_mgr_tasks[i] = "cancelled"

----------------------------------------------------------------------------
(* The IRQ manager on its own: IrqManager of irq_manager.py as a server
   (the host) or as a client (a device), with its two handler registries,
   its connections and the peers at their other ends.  The bytes written
   to a connection and the bytes a peer has written are kept per
   connection in irq_links; irq_wire is not used here. *)

\* largest number of connections
MaxPeers == 2
\* largest number of messages the peers send
MaxMessages == 2
\* largest number of frames the manager sends
MaxSends == 2
\* largest number of handler registrations
MaxRegistrations == 2

\* the low-byte mask of _irq_handler
DEV_ID_MASK == 255

\* the device ids of the peers
PeerIds == 0..(MaxPeers - 1)

\* the IRQ codes the peers and the manager send
IrqCodes == {DEV_REMOVED, DEV_ADDED}

\* self._device_id: the constructor's default for the host, the id of the
\* device for a client
MgrDeviceId == IF irq_server THEN 0 ELSE VcsId

\* bug variant: the first byte is taken as the low one
from_bytes_little(msg) == msg[2] * (DEV_ID_MASK + 1) + msg[1]

\* int.from_bytes(msg): the first byte is the high one
from_bytes(msg) == msg[1] * (DEV_ID_MASK + 1) + msg[2]

\* the state after IrqManager.__init__
InitIrq ==
    /\ irq_server \in BOOLEAN
    /\ irq_pc = "created"
    /\ irq_registry = [specific |-> {}, general |-> {}]
    /\ irq_links = <<>>
    /\ irq_invoked = <<>>
    /\ irq_connections = 0
    /\ irq_wire = <<>>
    /\ irq_mgr_tasks = <<>>
    /\ irq_handlers = <<>>
    /\ irq_tasks = <<>>
    /\ frame = <<>>
    /\ payload = <<>>
    /\ AuxIdle
    /\ FmldIdle
    /\ initial_bounds = <<>>
    /\ rt_active = <<>>
    /\ vppb_port = <<>>
    /\ bind_state = <<>>
    /\ event_handler = FALSE
    /\ call = NoCall
    /\ calls_made = 0
    /\ sw_pc = "none"
    /\ applied = 0
    /\ sw_status = "none"
    /\ sub_status = <<>>
    /\ stop_pc = "none"

\* what an action of the IRQ manager leaves alone
MgrFrame == UNCHANGED <<fmld_vars, relay_vars, switch_vars, irq_server,
                        irq_wire, frame, payload, aux_vars>>

\* bug variant: the device id is taken as given
locked_dev_id_as_given(server, dev_id) == dev_id

\* register_interrupt_handler: dev_id is locked to 0 for a client
locked_dev_id(server, dev_id) == IF server THEN dev_id ELSE 0

\* the owner of the manager registers its handlers when it has made it,
\* before the manager runs and before a peer is connected
Registering == irq_pc = "created" /\ irq_links = <<>>

\* the number of handlers in the two registries
Registered ==
    Cardinality(irq_registry.specific) + Cardinality(irq_registry.general)

\* register_interrupt_handler(irq_msg, cb, dev_id)
MgrRegisterInterruptHandler ==
    /\ Registering
    /\ Registered < MaxRegistrations
    /\ \E irq \in IrqCodes, dev_id \in PeerIds :
          irq_registry' =
              [irq_registry EXCEPT
                  !.specific = @ \cup {<<locked_dev_id(irq_server, dev_id), irq>>}]
    /\ UNCHANGED <<irq_pc, irq_links, irq_invoked, irq_connections,
                   irq_mgr_tasks, irq_handlers, irq_tasks>>
    /\ MgrFrame

\* register_general_handler(irq_msg, cb, persistent): the entry of the IRQ
\* is replaced
MgrRegisterGeneralHandler ==
    /\ Registering
    /\ Registered < MaxRegistrations
    /\ \E irq \in IrqCodes, persistent \in BOOLEAN :
          irq_registry' =
              [irq_registry EXCEPT
                  !.general = {g \in @ : g.irq # irq} \cup
                              {[irq |-> irq, persistent |-> persistent]}]
    /\ UNCHANGED <<irq_pc, irq_links, irq_invoked, irq_connections,
                   irq_mgr_tasks, irq_handlers, irq_tasks>>
    /\ MgrFrame

\* IrqManager._run: the server task (a server only) and the task that
\* waits for the end signal
MgrRun ==
    /\ irq_pc = "created"
    /\ irq_pc' = "running"
    /\ irq_mgr_tasks' = IF irq_server THEN <<"running", "running">>
                        ELSE <<"running">>
    /\ UNCHANGED <<irq_registry, irq_links, irq_invoked, irq_connections,
                   irq_handlers, irq_tasks>>
    /\ MgrFrame

NewLink(peer) == [peer |-> peer, inbox |-> <<>>, out |-> <<>>]

\* _new_conn of a running server, or start_connection of a client: the
\* connection is appended and its handler task made; the peers of a server
\* connect in any order, a client opens its one connection to the host
MgrConnect ==
    /\ IF irq_server THEN irq_pc = "running" ELSE irq_pc # "stopped"
    /\ Len(irq_links) < (IF irq_server THEN MaxPeers ELSE 1)
    /\ \E peer \in PeerIds :
          /\ \A c \in 1..Len(irq_links) : irq_links[c].peer # peer
          /\ irq_links' = Append(irq_links, NewLink(peer))
    /\ irq_connections' = irq_connections + 1
    /\ irq_handlers' = Append(irq_handlers, "running")
    /\ UNCHANGED <<irq_pc, irq_registry, irq_invoked, irq_mgr_tasks, irq_tasks>>
    /\ MgrFrame

\* the messages of the peers: those waiting, those that had a callback and
\* those that ended a handler
MessagesSent ==
    LET sum[c \in 0..Len(irq_links)] ==
            IF c = 0 THEN 0
            ELSE sum[c - 1] + Len(irq_links[c].inbox)
                 + (IF irq_handlers[c] = "failed" THEN 1 ELSE 0)
    IN  sum[Len(irq_links)] + Len(irq_invoked)

\* a peer sends an IRQ with its own send_irq_request
PeerSend ==
    /\ MessagesSent < MaxMessages
    /\ \E c \in 1..Len(irq_links), irq \in IrqCodes :
          irq_links' = [irq_links EXCEPT
                           ![c].inbox = Append(@, irq_frame(irq, irq_links[c].peer))]
    /\ UNCHANGED <<irq_pc, irq_registry, irq_invoked, irq_connections,
                   irq_mgr_tasks, irq_handlers, irq_tasks>>
    /\ MgrFrame

\* the devices that have a dictionary in _msg_to_interrupt_event
SpecificDevs(registry) == {e[1] : e \in registry.specific}

\* the IRQs that have an entry in _general_interrupt_event
GeneralIrqs(registry) == {g.irq : g \in registry.general}

GeneralOf(registry, irq) == CHOOSE g \in registry.general : g.irq = irq

\* bug variant: a message nobody registered for is dropped in silence
irq_dispatch_drops_unknown(registry, remote_dev_id, irq) ==
    IF remote_dev_id \notin SpecificDevs(registry)
    THEN IF irq \notin GeneralIrqs(registry) THEN "dropped" ELSE "general"
    ELSE IF <<remote_dev_id, irq>> \notin registry.specific
         THEN "dropped" ELSE "specific"

\* the lookups of _irq_handler: the general registry is consulted only for
\* a device that has no dictionary of its own
irq_dispatch(registry, remote_dev_id, irq) ==
    IF remote_dev_id \notin SpecificDevs(registry)
    THEN IF irq \notin GeneralIrqs(registry) THEN "RuntimeError" ELSE "general"
    ELSE IF <<remote_dev_id, irq>> \notin registry.specific
         THEN "RuntimeError" ELSE "specific"

\* bug variant: the entry stays
general_after_invoke_kept(general, irq) == general

\* _irq_handler: a handler that is not persistent is deleted
general_after_invoke(general, irq) ==
    {g \in general : g.irq # irq \/ g.persistent}

\* the device id _irq_handler reads from a message: the low byte, locked
\* to 0 for a client
remote_dev_id_of(server, msg) ==
    IF server THEN from_bytes(msg) % (DEV_ID_MASK + 1) ELSE 0

\* the IRQ _irq_handler reads from a message
irq_of(msg) == from_bytes(msg) \div (DEV_ID_MASK + 1)

Invocation(handler, irq, dev_id, persistent) ==
    [handler |-> handler, irq |-> irq, dev_id |-> dev_id,
     persistent |-> persistent]

\* one round of the loop of _irq_handler on connection c, from the message
\* it has read on
irq_handler_round(c) ==
    /\ irq_handlers[c] = "running"
    /\ irq_links[c].inbox # <<>>
    /\ LET msg == Head(irq_links[c].inbox)
           dev == remote_dev_id_of(irq_server, msg)
           irq == irq_of(msg)
           found == irq_dispatch(irq_registry, dev, irq)
       IN  /\ irq_links' = [irq_links EXCEPT ![c].inbox = Tail(@)]
           /\ CASE found = "general" ->
                     LET g == GeneralOf(irq_registry, irq)
                     IN  /\ irq_registry' =
                               [irq_registry EXCEPT
                                   !.general = general_after_invoke(@, irq)]
                         /\ irq_tasks' = Append(irq_tasks, "running")
                         /\ irq_invoked' =
                               Append(irq_invoked,
                                      Invocation("general", irq, dev,
                                                 g.persistent))
                         /\ irq_handlers' = [irq_handlers EXCEPT ![c] = "finished"]
                [] found = "specific" ->
                     /\ irq_tasks' = Append(irq_tasks, "running")
                     /\ irq_invoked' =
                           Append(irq_invoked,
                                  Invocation("specific", irq, dev, TRUE))
                     /\ UNCHANGED <<irq_registry, irq_handlers>>
                [] found = "RuntimeError" ->
                     /\ irq_handlers' = [irq_handlers EXCEPT ![c] = "failed"]
                     /\ UNCHANGED <<irq_registry, irq_tasks, irq_invoked>>
                [] OTHER ->
                     UNCHANGED <<irq_registry, irq_tasks, irq_invoked, irq_handlers>>

\* the handler of a manager that is never shut down: _run_status is True
\* from before the handler is made
MgrIrqHandlerOn(c) ==
    /\ irq_handler_round(c)
    /\ UNCHANGED <<irq_pc, irq_connections, irq_mgr_tasks>>
    /\ MgrFrame

MgrIrqHandler == \E c \in 1..Len(irq_links) : MgrIrqHandlerOn(c)

\* a callback task runs to its end
MgrTaskDone ==
    /\ \E t \in 1..Len(irq_tasks) :
          /\ irq_tasks[t] = "running"
          /\ irq_tasks' = [irq_tasks EXCEPT ![t] = "finished"]
    /\ UNCHANGED <<irq_pc, irq_registry, irq_links, irq_invoked,
                   irq_connections, irq_mgr_tasks, irq_handlers>>
    /\ MgrFrame

FramesSent ==
    LET sum[c \in 0..Len(irq_links)] ==
            IF c = 0 THEN 0 ELSE sum[c - 1] + Len(irq_links[c].out)
    IN  sum[Len(irq_links)]

\* bug variant: the frame is written to the first connection
send_connection_first(device) == 1

\* send_irq_request: self._connections[device], a list in the order the
\* peers connected
send_connection(device) == device + 1

\* send_irq_request(request, device) with a device inside the list
MgrSendIrqRequestTo(request, device) ==
    /\ FramesSent < MaxSends
    /\ device < Len(irq_links)
    /\ irq_links' =
          [irq_links EXCEPT
              ![send_connection(device)].out =
                  Append(@, irq_frame(request, MgrDeviceId))]
    /\ UNCHANGED <<irq_pc, irq_registry, irq_invoked, irq_connections,
                   irq_mgr_tasks, irq_handlers, irq_tasks>>
    /\ MgrFrame

MgrSendIrqRequest ==
    \E request \in IrqCodes, device \in PeerIds :
        MgrSendIrqRequestTo(request, device)

\* IrqManager._stop: the callback tasks, the manager's own tasks and the
\* connection handlers are cancelled
MgrStop ==
    /\ irq_pc = "running"
    /\ irq_pc' = "stopped"
    /\ irq_tasks' = cancel_irq_tasks(irq_tasks)
    /\ irq_mgr_tasks' = cancel_all(irq_mgr_tasks)
    /\ irq_handlers' = cancel_irq_handlers(irq_handlers)
    /\ UNCHANGED <<irq_registry, irq_links, irq_invoked, irq_connections>>
    /\ MgrFrame

NextIrq ==
    \/ MgrRegisterInterruptHandler
    \/ MgrRegisterGeneralHandler
    \/ MgrRun
    \/ MgrConnect
    \/ PeerSend
    \/ MgrIrqHandler

SpecIrq == InitIrq /\ [][NextIrq]_vars

(* The manager with its callback tasks running to their ends and its owner
   stopping it at any time *)
NextIrqStop ==
    \/ NextIrq
    \/ MgrTaskDone
    \/ MgrStop

SpecIrqStop == InitIrq /\ [][NextIrqStop]_vars

(* The sending side of the manager: the peers connect in any order and the
   owner of the manager sends its IRQs *)
NextIrqSend ==
    \/ MgrRun
    \/ MgrConnect
    \/ MgrSendIrqRequest
    \/ MgrStop

SpecIrqSend == InitIrq /\ [][NextIrqSend]_vars

----------------------------------------------------------------------------
(* Properties of the dispatch of the IRQ manager *)

Conns == 1..Len(irq_links)

\* the message the handler of connection c reads next, as _irq_handler
\* parses it
NextDev(c) == remote_dev_id_of(irq_server, Head(irq_links[c].inbox))
NextIrqOf(c) == irq_of(Head(irq_links[c].inbox))

\* C21: when the handler of a connection takes a message (dev_id, irq)
\* that has no specific handler for the pair while a general handler is
\* registered for irq, the general handler is invoked with dev_id, also
\* when dev_id has specific handlers for other IRQs
C21_GeneralFallback ==
    [][\A c \in Conns :
          (/\ MgrIrqHandlerOn(c)
           /\ <<NextDev(c), NextIrqOf(c)>> \notin irq_registry.specific
           /\ NextIrqOf(c) \in GeneralIrqs(irq_registry))
          => irq_invoked' =
                Append(irq_invoked,
                       Invocation("general", NextIrqOf(c), NextDev(c),
                                  GeneralOf(irq_registry, NextIrqOf(c)).persistent))
      ]_vars

\* C22: a message that carries an IRQ with a persistent general handler,
\* from a device without specific handlers, never waits on a connection
\* whose handler has returned: the general handler serves every such message
C22_PersistentGeneralServesAll ==
    \A c \in Conns :
        (/\ irq_links[c].inbox # <<>>
         /\ NextDev(c) \notin SpecificDevs(irq_registry)
         /\ \E g \in irq_registry.general : g.irq = NextIrqOf(c) /\ g.persistent)
        => irq_handlers[c] # "finished"

\* the invocations of the general handler of irq that is not persistent
OneShotInvocations(irq) ==
    {k \in 1..Len(irq_invoked) :
        /\ irq_invoked[k].handler = "general"
        /\ irq_invoked[k].irq = irq
        /\ ~irq_invoked[k].persistent}

\* C23: a general handler that is not persistent is invoked at most once,
\* and the step that invokes it leaves no general handler for its IRQ
C23_OneShotGeneral ==
    /\ [](\A irq \in IrqCodes : Cardinality(OneShotInvocations(irq)) <= 1)
    /\ [][\A c \in Conns :
             (/\ MgrIrqHandlerOn(c)
              /\ irq_dispatch(irq_registry, NextDev(c), NextIrqOf(c)) = "general"
              /\ ~GeneralOf(irq_registry, NextIrqOf(c)).persistent)
             => NextIrqOf(c) \notin GeneralIrqs(irq_registry')
         ]_vars

\* a one-shot general handler was invoked, nothing is registered any more
\* and the handler of another connection has failed on a message
C23_Witness ==
    /\ \E irq \in IrqCodes : Cardinality(OneShotInvocations(irq)) = 1
    /\ irq_registry.specific = {}
    /\ irq_registry.general = {}
    /\ \E c \in Conns : irq_handlers[c] = "failed"
    /\ \E c \in Conns : irq_handlers[c] = "finished"

\* C24: a message with neither a specific handler for (dev_id, irq) nor a
\* general handler for irq ends the handler with an error, and no callback
\* task is made for it
C24_UnknownIrqRaises ==
    [][\A c \in Conns :
          (/\ MgrIrqHandlerOn(c)
           /\ <<NextDev(c), NextIrqOf(c)>> \notin irq_registry.specific
           /\ NextIrqOf(c) \notin GeneralIrqs(irq_registry))
          => /\ irq_handlers'[c] = "failed"
             /\ irq_tasks' = irq_tasks
             /\ irq_invoked' = irq_invoked
      ]_vars

\* a handler has failed on the only message sent, with handlers registered
C24_Witness ==
    /\ \E c \in Conns : irq_handlers[c] = "failed"
    /\ irq_tasks = <<>>
    /\ irq_registry.specific # {}
    /\ irq_registry.general # {}

\* C29: a client keeps its specific handlers under device 0 whatever
\* dev_id they were registered with, and invokes the handler of irq with
\* dev_id 0 for every message that carries irq, whatever its low byte
C29_ClientDevIdZero ==
    /\ [](~irq_server => \A e \in irq_registry.specific : e[1] = 0)
    /\ [][~irq_server =>
             \A c \in Conns :
                (/\ MgrIrqHandlerOn(c)
                 /\ \E e \in irq_registry.specific : e[2] = NextIrqOf(c))
                => /\ irq_invoked' =
                         Append(irq_invoked,
                                Invocation("specific", NextIrqOf(c), 0, TRUE))
                   /\ irq_handlers'[c] = "running"
         ]_vars

\* a client has invoked a specific handler with dev_id 0 for two messages of
\* a peer whose device id is not 0
C29_Witness ==
    /\ ~irq_server
    /\ irq_links # <<>>
    /\ irq_links[1].peer # 0
    /\ Len(irq_invoked) = MaxMessages
    /\ \A k \in 1..Len(irq_invoked) :
          irq_invoked[k].handler = "specific" /\ irq_invoked[k].dev_id = 0

\* C25: on a server with several peers connected, send_irq_request(irq, d)
\* appends its one frame to the connection of the peer whose device id is
\* d and writes nothing to the other connections, in whatever order the
\* peers connected
C25_SendReachesDevice ==
    [][irq_server =>
          \A request \in IrqCodes, device \in PeerIds :
             (/\ MgrSendIrqRequestTo(request, device)
              /\ Len(irq_links) >= 2
              /\ \E c \in Conns : irq_links[c].peer = device)
             => \A c \in Conns :
                   irq_links'[c].out =
                      IF irq_links[c].peer = device
                      THEN Append(irq_links[c].out,
                                  irq_frame(request, MgrDeviceId))
                      ELSE irq_links[c].out
      ]_vars

NoneRunning(tasks) == \A t \in 1..Len(tasks) : tasks[t] # "running"

Cancelled(tasks, after) ==
    \A t \in 1..Len(tasks) : tasks[t] = "running" => after[t] = "cancelled"

\* C28: _stop cancels every callback task that has not finished, every
\* connection handler and the manager's own tasks, the server task among
\* them; no task of a stopped manager is running
C28_StopCancelsEverything ==
    /\ [](irq_pc = "stopped" =>
             /\ NoneRunning(irq_tasks)
             /\ NoneRunning(irq_handlers)
             /\ NoneRunning(irq_mgr_tasks))
    /\ [][MgrStop =>
             /\ Cancelled(irq_tasks, irq_tasks')
             /\ Cancelled(irq_handlers, irq_handlers')
             /\ Cancelled(irq_mgr_tasks, irq_mgr_tasks')
         ]_vars

\* a server was stopped with one callback over, one callback in flight and
\* a connection handler waiting for a message
C28_Witness ==
    /\ irq_pc = "stopped"
    /\ irq_server
    /\ irq_mgr_tasks = <<"cancelled", "cancelled">>
    /\ \E t \in 1..Len(irq_tasks) : irq_tasks[t] = "cancelled"
    /\ \E t \in 1..Len(irq_tasks) : irq_tasks[t] = "finished"
    /\ \E c \in Conns : irq_handlers[c] = "cancelled"

----------------------------------------------------------------------------
(* The IRQ frame on its own: one frame written by send_irq_request of a
   sender and parsed by _irq_handler of a server at the other end *)

\* the first and the last member of Irq
NULL == 0
IrqEnum == NULL..DEV_ADDED

\* the width of a frame in bytes
IRQ_WIDTH == 2

\* no virtual switch in the picture
NoSwitch ==
    /\ initial_bounds = <<>>
    /\ rt_active = <<>>
    /\ vppb_port = <<>>
    /\ bind_state = <<>>
    /\ event_handler = FALSE
    /\ call = NoCall
    /\ calls_made = 0
    /\ sw_pc = "none"
    /\ applied = 0
    /\ sw_status = "none"
    /\ sub_status = <<>>
    /\ stop_pc = "none"

\* no IRQ manager in the picture
NoIrqManager ==
    /\ irq_server = FALSE
    /\ irq_pc = "none"
    /\ irq_registry = <<>>
    /\ irq_links = <<>>
    /\ irq_invoked = <<>>
    /\ irq_connections = 0
    /\ irq_wire = <<>>
    /\ irq_mgr_tasks = <<>>
    /\ irq_handlers = <<>>
    /\ irq_tasks = <<>>

\* a sender with a device id of one byte is about to send one of the IRQs
InitFrame ==
    /\ \E request \in IrqEnum, device_id \in 0..DEV_ID_MASK :
          frame = [request |-> request, device_id |-> device_id,
                   pc |-> "created", msg |-> <<>>,
                   irq_num |-> -1, remote_dev_id |-> -1]
    /\ payload = <<>>
    /\ FmldIdle
    /\ NoSwitch
    /\ NoIrqManager
    /\ AuxIdle

\* send_irq_request: the frame is written to the connection
FrameSend ==
    /\ frame.pc = "created"
    /\ frame' = [frame EXCEPT
                    !.pc = "sent",
                    !.msg = irq_frame(frame.request, frame.device_id)]
    /\ UNCHANGED <<fmld_vars, relay_vars, switch_vars, irq_vars>>
    /\ UNCHANGED <<irq_server, irq_pc, irq_registry, irq_links, irq_invoked,
                   payload, aux_vars>>

\* _irq_handler of a server: readexactly(IRQ_WIDTH) and the parsing of the
\* message
FrameReceive ==
    /\ frame.pc = "sent"
    /\ Len(frame.msg) = IRQ_WIDTH
    /\ frame' = [frame EXCEPT
                    !.pc = "received",
                    !.remote_dev_id = remote_dev_id_of(TRUE, frame.msg),
                    !.irq_num = irq_of(frame.msg)]
    /\ UNCHANGED <<fmld_vars, relay_vars, switch_vars, irq_vars>>
    /\ UNCHANGED <<irq_server, irq_pc, irq_registry, irq_links, irq_invoked,
                   payload, aux_vars>>

NextFrame ==
    \/ FrameSend
    \/ FrameReceive

SpecFrame == InitFrame /\ [][NextFrame]_vars

C27_LittleEndianOnWire ==
    frame.pc # "created" =>
        /\ frame.msg[1] = frame.device_id
        /\ frame.msg[2] = frame.request

----------------------------------------------------------------------------
(* The payloads of Set LD Allocations: SetLdAllocationsRequestPayload and
   SetLdAllocationsResponsePayload of set_ld_allocations.py, whose parse
   and dump are the same code.  A Python value that is iterated is kept
   with its type: bytes yield integers, a list of pairs yields pairs. *)

\* largest number of LDs in a payload
MaxPayloadLds == 1

\* the values of range_1 and range_2 in a payload
PayloadRanges == {0, 1, 513, 65536}

RECURSIVE pack_le(_, _)
\* struct.pack of an unsigned integer in little-endian order, width bytes
pack_le(value, width) ==
    IF width = 0 THEN <<>>
    ELSE <<value % 256>> \o pack_le(value \div 256, width - 1)

\* struct.pack("<QQ", range_1, range_2)
pack_QQ(pair) == pack_le(pair[1], 8) \o pack_le(pair[2], 8)

RECURSIVE pack_pairs(_)
pack_pairs(pairs) ==
    IF pairs = <<>> THEN <<>>
    ELSE pack_QQ(Head(pairs)) \o pack_pairs(Tail(pairs))

\* a well-formed payload: number_of_lds, start_ld_id, two reserved zero
\* bytes, then 16 bytes for each pair
WellFormedPayload(number_of_lds, start_ld_id, pairs) ==
    <<number_of_lds, start_ld_id, 0, 0>> \o pack_pairs(pairs)

\* parse(data): the two header bytes, and data[4:] kept as bytes
parse(data) ==
    [number_of_lds |-> data[1],
     start_ld_id |-> data[2],
     ld_allocation_list |->
        [type |-> "bytes", items |-> SubSeq(data, 5, Len(data))]]

\* dump(): the header, two zero bytes, then "for range_1, range_2 in
\* self.ld_allocation_list"; an item of bytes is an integer and cannot be
\* unpacked into two names
dump(obj) ==
    IF obj.ld_allocation_list.items = <<>>
    THEN [error |-> "", data |-> <<obj.number_of_lds, obj.start_ld_id, 0, 0>>]
    ELSE IF obj.ld_allocation_list.type = "bytes"
         THEN [error |-> "TypeError", data |-> <<>>]
         ELSE [error |-> "",
               data |-> <<obj.number_of_lds, obj.start_ld_id, 0, 0>>
                        \o pack_pairs(obj.ld_allocation_list.items)]

\* a well-formed payload of either class has arrived
InitPayload ==
    /\ \E class \in {"SetLdAllocationsRequestPayload",
                     "SetLdAllocationsResponsePayload"},
          number_of_lds \in 0..MaxPayloadLds,
          start_ld_id \in 0..MaxPayloadLds :
          \E pairs \in [1..number_of_lds -> PayloadRanges \X PayloadRanges] :
             payload = [class |-> class, pc |-> "created",
                        b |-> WellFormedPayload(number_of_lds, start_ld_id, pairs),
                        obj |-> <<>>, error |-> "", out |-> <<>>]
    /\ frame = <<>>
    /\ FmldIdle
    /\ NoSwitch
    /\ NoIrqManager
    /\ AuxIdle

PayloadFrame ==
    UNCHANGED <<fmld_vars, relay_vars, switch_vars, irq_vars, irq_server,
                irq_pc, irq_registry, irq_links, irq_invoked, frame, aux_vars>>

\* parse(b) of the class
PayloadParse ==
    /\ payload.pc = "created"
    /\ payload' = [payload EXCEPT !.pc = "parsed", !.obj = parse(payload.b)]
    /\ PayloadFrame

\* dump() of the parsed payload
PayloadDump ==
    /\ payload.pc = "parsed"
    /\ payload' = [payload EXCEPT
                      !.pc = "dumped",
                      !.error = dump(payload.obj).error,
                      !.out = dump(payload.obj).data]
    /\ PayloadFrame

NextPayload ==
    \/ PayloadParse
    \/ PayloadDump

SpecPayload == InitPayload /\ [][NextPayload]_vars

\* C30: for every well-formed payload b of either class, parse(b).dump()
\* returns b
C30_PayloadRoundTrip ==
    payload.pc = "dumped" => payload.error = "" /\ payload.out = payload.b

----------------------------------------------------------------------------
(* The response payload of Get LD Allocations,
   GetLdAllocationsResponsePayload of get_ld_allocations.py: parse of any
   byte string, then dump of what parse returned *)

\* largest length of a byte string given to parse
MaxPayloadLen == 6

\* the values of the bytes
PayloadByteValues == {0, 1, 2}

\* the byte strings of a length
BytesOfLen(n) == [1..n -> PayloadByteValues]

\* GetLdAllocationsResponsePayload.parse(data): four header bytes, the
\* rest is the list; only a string shorter than the header is refused
lda_parse(data) ==
    IF Len(data) < 4
    THEN [error |-> "ValueError", obj |-> <<>>]
    ELSE [error |-> "",
          obj |-> [number_of_lds |-> data[1],
                   memory_granularity |-> data[2],
                   start_ld_id |-> data[3],
                   ld_allocation_list_length |-> data[4],
                   ld_allocation_list |-> SubSeq(data, 5, Len(data))]]

\* GetLdAllocationsResponsePayload.dump()
lda_dump(obj) ==
    <<obj.number_of_lds, obj.memory_granularity, obj.start_ld_id,
      obj.ld_allocation_list_length>> \o obj.ld_allocation_list

\* a byte string has arrived as the payload of a response
InitLdaPayload ==
    /\ \E n \in 0..MaxPayloadLen :
          \E b \in BytesOfLen(n) :
             payload = [class |-> "GetLdAllocationsResponsePayload",
                        pc |-> "created", b |-> b,
                        obj |-> <<>>, error |-> "", out |-> <<>>]
    /\ frame = <<>>
    /\ FmldIdle
    /\ NoSwitch
    /\ NoIrqManager
    /\ AuxIdle

\* parse(b)
LdaParse ==
    /\ payload.pc = "created"
    /\ payload' = [payload EXCEPT
                      !.pc = IF lda_parse(payload.b).error = ""
                             THEN "parsed" ELSE "refused",
                      !.error = lda_parse(payload.b).error,
                      !.obj = lda_parse(payload.b).obj]
    /\ PayloadFrame

\* dump() of the parsed payload
LdaDump ==
    /\ payload.pc = "parsed"
    /\ payload' = [payload EXCEPT !.pc = "dumped", !.out = lda_dump(payload.obj)]
    /\ PayloadFrame

NextLdaPayload ==
    \/ LdaParse
    \/ LdaDump

SpecLdaPayload == InitLdaPayload /\ [][NextLdaPayload]_vars

\* C31: parse accepts b only when len(b) = 4 + b[3], a parsed payload
\* holds exactly ld_allocation_list_length bytes in its list, and dump
\* gives back every b that was accepted
C31_ListLengthAndRoundTrip ==
    /\ payload.pc \in {"parsed", "dumped"} =>
          /\ Len(payload.b) = 4 + payload.b[4]
          /\ Len(payload.obj.ld_allocation_list) =
                payload.obj.ld_allocation_list_length
    /\ payload.pc = "dumped" => payload.out = payload.b

----------------------------------------------------------------------------
(* The multi-logical device: MultiLogicalDevice of
   apps/multi_logical_device.py makes one CXL connection and one type-3
   device for each of its num_ld LDs.  The packet processor that splits the
   traffic of the MLD port by LD-ID and the type-3 device live in other
   modules of the repository; they follow sections 3 and 4.3 of the
   specification. *)

\* largest num_ld
MaxNumLd == 2
\* largest number of CXL.io requests the host sends
MaxMldRequests == 2

\* the CXL.io requests of the tunnel test: a Type0 configuration request
\* and a memory request complete successfully, a Type1 configuration
\* request is an Unsupported Request
IoRequestKinds == {"CfgType0", "CfgType1", "Mem"}

\* MultiLogicalDevice.__init__: the LDs that get a connection and a device
mld_devices(num_ld) == 0..(num_ld - 1)

\* the state after MultiLogicalDevice.__init__ and run()
InitMld ==
    /\ \E num_ld \in 1..MaxNumLd :
          mld = [num_ld |-> num_ld,
                 sent |-> <<>>,
                 socket_in |-> <<>>,
                 host_to_target |-> [ld \in mld_devices(num_ld) |-> <<>>],
                 target_to_host |-> [ld \in mld_devices(num_ld) |-> <<>>],
                 socket_out |-> <<>>]
    /\ mctp = <<>>
    /\ irq_run = <<>>
    /\ sw_calls = <<>>
    /\ frame = <<>>
    /\ payload = <<>>
    /\ FmldIdle
    /\ NoSwitch
    /\ NoIrqManager

MldFrame ==
    UNCHANGED <<fmld_vars, relay_vars, switch_vars, irq_vars, irq_server,
                irq_pc, irq_registry, irq_links, irq_invoked, frame, payload,
                mctp, irq_run, sw_calls>>

\* the host writes a CXL.io request for one of the LDs to the socket of the
\* MLD port; tag tells the requests apart
MldHostSend ==
    /\ Len(mld.sent) < MaxMldRequests
    /\ \E ld_id \in mld_devices(mld.num_ld), kind \in IoRequestKinds :
          LET request == [ld_id |-> ld_id, kind |-> kind,
                          tag |-> Len(mld.sent) + 1]
          IN  mld' = [mld EXCEPT !.sent = Append(@, request),
                                 !.socket_in = Append(@, request)]
    /\ MldFrame

\* ingress of the packet processor: the packet goes to the connection of
\* its ld_id
MldIngress ==
    /\ mld.socket_in # <<>>
    /\ LET packet == Head(mld.socket_in)
       IN  mld' = [mld EXCEPT
                      !.socket_in = Tail(@),
                      !.host_to_target[packet.ld_id] = Append(@, packet)]
    /\ MldFrame

\* bug variant: the completion leaves the device without its LD-ID
completion_ld_id_zero(request) == 0

\* the ld_id tag of a packet survives the round trip
completion_ld_id(request) == request.ld_id

\* the completion of a request
completion_of(request) ==
    [ld_id |-> completion_ld_id(request),
     status |-> IF request.kind = "CfgType1" THEN "UR" ELSE "SC",
     tag |-> request.tag]

\* the type-3 device of an LD answers the next request of its connection
MldDevice ==
    /\ \E ld \in mld_devices(mld.num_ld) :
          /\ mld.host_to_target[ld] # <<>>
          /\ mld' = [mld EXCEPT
                        !.host_to_target[ld] = Tail(@),
                        !.target_to_host[ld] =
                            Append(@, completion_of(Head(mld.host_to_target[ld])))]
    /\ MldFrame

\* egress of the packet processor: the connections are drained in any
\* order, each in its own order
MldEgress ==
    /\ \E ld \in mld_devices(mld.num_ld) :
          /\ mld.target_to_host[ld] # <<>>
          /\ mld' = [mld EXCEPT
                        !.target_to_host[ld] = Tail(@),
                        !.socket_out = Append(@, Head(mld.target_to_host[ld]))]
    /\ MldFrame

NextMld ==
    \/ MldHostSend
    \/ MldIngress
    \/ MldDevice
    \/ MldEgress

SpecMld == InitMld /\ [][NextMld]_vars

----------------------------------------------------------------------------
(* Further properties of the FMLD *)

\* the commands the FMLD serves
ServedOpcodes ==
    {OPCODE_GET_LD_INFO, OPCODE_GET_LD_ALLOCATIONS, OPCODE_SET_LD_ALLOCATIONS}

\* the kind of response a command is answered with
ResponseKind(op) ==
    IF op = OPCODE_GET_LD_INFO THEN "GetLdInfoResponse"
    ELSE IF op = OPCODE_GET_LD_ALLOCATIONS THEN "GetLdAllocationsResponse"
    ELSE "SetLdAllocationsResponse"

\* C33: the step of the request task that takes a Get LD Info, a Get LD
\* Allocations with a valid start_ld_id or a Set LD Allocations request
\* puts exactly one response, of the kind of the request, at the end of
\* upstream target_to_host before the task takes another request, so the
\* responses are queued in the order of the requests
C33_OneResponsePerRequestInOrder ==
    [][\A op \in ServedOpcodes :
          (/\ Processing(op)
           /\ op = OPCODE_GET_LD_ALLOCATIONS =>
                 Head(h2t).start_ld_id \in 0..(ld_count - 1))
          => /\ Answered
             /\ Answer.kind = ResponseKind(op)
             /\ fm_pc' = "running"
      ]_vars

\* the responses to two requests wait in the order the requests were sent
C33_Witness ==
    /\ Len(t2h) = 2
    /\ t2h[1].kind = "SetLdAllocationsResponse"
    /\ t2h[2].kind = "GetLdAllocationsResponse"
    /\ h2t = <<>>

(* Termination of the FMLD.  The event loop runs every task that can take a
   step, and the fabric manager keeps reading upstream target_to_host; the
   calls of _run and _stop and the senders are under no obligation *)

\* one iteration of the loop of _process_fm_to_target
FmStep ==
    \/ FmStopped
    \/ FmGetLdInfo
    \/ FmGetLdAllocations
    \/ FmSetLdAllocations
    \/ FmOtherOpcode

\* one step of _process_target_to_fm
TfStep ==
    \/ TfStart
    \/ TfForward
    \/ TfStopped

\* the end of the gather of _run
RunEnds ==
    \/ RunReturned
    \/ RunRaised

SpecRelayLive ==
    /\ SpecRelay
    /\ WF_vars(FmStep)
    /\ WF_vars(TfStep)
    /\ WF_vars(RunEnds)
    /\ WF_vars(HostReceive)

\* both loops have been left and _run has ended
FmldEnded ==
    /\ fm_pc \in {"stopped", "failed"}
    /\ tf_pc \in {"done", "stopped"}
    /\ run_pc \in {"returned", "raised"}

\* no request waits in front of the closed sentinel
NoRequestBeforeSentinel ==
    \A i \in 1..Len(h2t) :
       h2t[i] = None => \A j \in 1..(i - 1) : h2t[j] = None

\* C34: once _stop has put its sentinels and _run has been called, both
\* loops are left and _run ends; when the loop of the request task has been
\* left every request put before the sentinel has been taken, and the task
\* takes nothing from the queue afterwards
C34_StopDrainsAndTerminates ==
    /\ (stop_called /\ fm_pc # "created") ~> FmldEnded
    /\ [](stop_called /\ fm_pc \in {"stopped", "failed"} => NoRequestBeforeSentinel)
    /\ [][(fm_pc \in {"stopped", "failed"}) =>
             (Len(h2t') >= Len(h2t) /\ SubSeq(h2t', 1, Len(h2t)) = h2t)
        ]_vars

(* Conservation of the allocation state *)

\* the sum of the entries of a sequence
RECURSIVE SumSeq(_)
SumSeq(list) == IF list = <<>> THEN 0 ELSE Head(list) + SumSeq(Tail(list))

\* the sum of the entries of the dictionary
RECURSIVE SumDictFrom(_, _)
SumDictFrom(dict, i) ==
    IF i \notin DOMAIN dict THEN 0 ELSE dict[i] + SumDictFrom(dict, i + 1)
SumDict(dict) == SumDictFrom(dict, 0)

\* the grants this step reports: those of the Set LD Allocations response it
\* puts on target_to_host, none in every other step
GrantsReported ==
    IF Answered /\ IsSetResponse(Answer)
    THEN SumSeq(Answer.ld_allocation_list)
    ELSE 0

\* C35: ld_dict starts with ld_count in all, every step takes from ld_dict
\* exactly the grants it reports in a Set LD Allocations response, and no
\* entry of ld_dict ever increases or falls below zero; so the grants
\* reported so far and the entries of ld_dict always add up to ld_count
C35_AllocationConserved ==
    /\ SumDict(ld_dict) = ld_count
    /\ [][IF ld_dict' = ld_dict
          THEN GrantsReported = 0
          ELSE /\ SumDict(ld_dict) - SumDict(ld_dict') = GrantsReported
               /\ \A i \in DOMAIN ld_dict :
                     ld_dict'[i] <= ld_dict[i] /\ ld_dict'[i] >= 0
       ]_vars

\* a Set LD Allocations response that grants an LD is in the queue, part of
\* the LDs is granted and part is free, and an LD granted before was asked
\* for again
C35_Witness ==
    /\ t2h # <<>>
    /\ IsSetResponse(t2h[1])
    /\ SumSeq(t2h[1].ld_allocation_list) >= 1
    /\ SumDict(ld_dict) \in 1..(ld_count - 2)
    /\ \E k \in 1..Len(t2h[1].ld_allocation_list) :
          /\ t2h[1].ld_allocation_list[k] = 0
          /\ RequestedAmounts(outstanding)[k] > 0

(* What writes the allocation state *)

\* this step is one iteration of the loop of _process_target_to_fm that
\* forwards a packet of the downstream device
Forwarding ==
    /\ tf_pc = "running"
    /\ ds_t2h # <<>>
    /\ Head(ds_t2h) # None
    /\ ds_t2h' = Tail(ds_t2h)

\* C36: a step that serves a Get LD Info or a Get LD Allocations request or
\* forwards a packet of the downstream device leaves ld_dict as it was, and
\* a step that changes ld_dict serves a Set LD Allocations request
C36_OnlySetWritesLdDict ==
    [][/\ (\/ Processing(OPCODE_GET_LD_INFO)
           \/ Processing(OPCODE_GET_LD_ALLOCATIONS)
           \/ Forwarding) => ld_dict' = ld_dict
       /\ ld_dict' # ld_dict => Processing(OPCODE_SET_LD_ALLOCATIONS)
      ]_vars

\* a forwarded packet and the answers to a Get LD Info and a Get LD
\* Allocations request have been queued, with every LD still free
C36_Witness ==
    /\ \E i \in 1..Len(t2h) : t2h[i].kind = "DownstreamPacket"
    /\ \E i \in 1..Len(t2h) : IsInfoResponse(t2h[i])
    /\ \E i \in 1..Len(t2h) : IsGetResponse(t2h[i])
    /\ \A i \in DOMAIN ld_dict : ld_dict[i] = 1

----------------------------------------------------------------------------
(* The allocation list of a Set LD Allocations request, from the list the
   sender gives to the amounts the FMLD applies.  `payload` holds the
   arguments of SetLdAllocationsRequestPacket.create *)

\* the start_ld_id values of the requests
SetListStarts == {0, 1}

InitSetList ==
    /\ ld_count \in 1..MaxLdCount
    /\ ld_dict = [i \in 0..(ld_count - 1) |-> 1]
    /\ h2t = <<>>
    /\ t2h = <<>>
    /\ fm_pc = "created"
    /\ stop_called = FALSE
    /\ outstanding = None
    /\ downstream = FALSE
    /\ RelayIdle
    /\ NoSwitch
    /\ NoIrqManager
    /\ frame = <<>>
    /\ AuxIdle
    /\ \E L \in SeqsUpTo(0..MaxReq, MaxN) :
          \E n \in 0..(MaxN + 1) :
             \E start \in SetListStarts :
                payload = [class |-> "SetLdAllocationsRequestPacket",
                           pc |-> "created", number_of_lds |-> n,
                           start_ld_id |-> start, ld_allocation_list |-> L]

\* the fabric manager creates the request, the list packed by list_to_int,
\* and writes it
SetListSend ==
    /\ payload.pc = "created"
    /\ payload' = [payload EXCEPT !.pc = "sent"]
    /\ LET req == Request(OPCODE_SET_LD_ALLOCATIONS, payload.start_ld_id, 0,
                          payload.number_of_lds,
                          list_to_int(payload.ld_allocation_list))
       IN  /\ h2t' = Append(h2t, req)
           /\ outstanding' = req
    /\ UNCHANGED <<ld_count, ld_dict, t2h, fm_pc, stop_called>>
    /\ UNCHANGED <<relay_vars, switch_vars, irq_vars>>
    /\ UNCHANGED <<irq_server, irq_pc, irq_registry, irq_links, irq_invoked,
                   frame, aux_vars>>

NextSetList ==
    \/ Run
    \/ SetListSend
    \/ FmSetLdAllocations
    \/ HostReceive

SpecSetList == InitSetList /\ [][NextSetList]_vars

\* the LDs the sender's list names that the FMLD has: index i of the list
\* is LD start_ld_id + i
NamedIndexes ==
    {i \in 0..(Len(payload.ld_allocation_list) - 1) :
        /\ i < payload.number_of_lds
        /\ payload.start_ld_id + i < ld_count}

\* C40: when the response to the request is in the queue, every LD
\* start_ld_id + i that the sender's list names has been granted the i-th
\* amount of the list, as far as the LD was free (each LD holds 1), also
\* when number_of_lds is larger than the length of the list
C40_AmountsAtTheirPositions ==
    (payload.pc = "sent" /\ t2h # <<>>) =>
        \A i \in NamedIndexes :
           /\ int_to_list(outstanding.ld_allocation_list,
                          payload.number_of_lds)[i + 1]
                 = payload.ld_allocation_list[i + 1]
           /\ t2h[1].ld_allocation_list[i + 1]
                 = Min(1, payload.ld_allocation_list[i + 1])
           /\ ld_dict[payload.start_ld_id + i]
                 = 1 - Min(1, payload.ld_allocation_list[i + 1])

----------------------------------------------------------------------------
(* MctpPacketProcessor, used as it is: `mctp` holds its two FIFO pairs as
   the sequences of packets that wait in them, and the position of its two
   coroutines *)

\* the packets each side sends
MaxMctpPackets == 2

\* a request of the fabric manager and a packet of the logical device
MctpRequest(op, n) == [kind |-> "CciRequestPacket", opcode |-> op, seq |-> n]
MctpLdPacket(n) == [kind |-> "LdPacket", seq |-> n]

InitMctp ==
    /\ \E ds \in BOOLEAN :
          mctp = [downstream |-> ds,
                  up_host_to_target |-> <<>>, up_target_to_host |-> <<>>,
                  down_host_to_target |-> <<>>, down_target_to_host |-> <<>>,
                  fm_pc |-> "started", tf_pc |-> "started",
                  fm_sent |-> 0, ld_sent |-> 0,
                  fm_closed |-> FALSE, ld_closed |-> FALSE]
    /\ mld = <<>>
    /\ irq_run = <<>>
    /\ sw_calls = <<>>
    /\ frame = <<>>
    /\ payload = <<>>
    /\ FmldIdle
    /\ NoSwitch
    /\ NoIrqManager

MctpFrame ==
    UNCHANGED <<fmld_vars, relay_vars, switch_vars, irq_vars, irq_server,
                irq_pc, irq_registry, irq_links, irq_invoked, frame, payload,
                mld, irq_run, sw_calls>>

\* the queue _process_fm_to_target puts a request on
mctp_fm_route(packet) ==
    IF packet.opcode = OPCODE_GET_LD_INFO
    THEN "up_target_to_host"
    ELSE "down_host_to_target"

(* _process_fm_to_target: it returns when there is no downstream FIFO pair,
   else it enters the loop *)
MctpFmStart ==
    /\ mctp.fm_pc = "started"
    /\ mctp' = [mctp EXCEPT
                   !.fm_pc = IF mctp.downstream THEN "running" ELSE "done"]
    /\ MctpFrame

\* one iteration of the loop: a request
MctpFmForward ==
    /\ mctp.fm_pc = "running"
    /\ mctp.up_host_to_target # <<>>
    /\ Head(mctp.up_host_to_target) # None
    /\ LET packet == Head(mctp.up_host_to_target)
           taken == [mctp EXCEPT
                        !.up_host_to_target = Tail(mctp.up_host_to_target)]
       IN  mctp' = [taken EXCEPT
                       ![mctp_fm_route(packet)] =
                           Append(taken[mctp_fm_route(packet)], packet)]
    /\ MctpFrame

\* packet is None: the loop breaks
MctpFmStopped ==
    /\ mctp.fm_pc = "running"
    /\ mctp.up_host_to_target # <<>>
    /\ Head(mctp.up_host_to_target) = None
    /\ mctp' = [mctp EXCEPT
                   !.up_host_to_target = Tail(mctp.up_host_to_target),
                   !.fm_pc = "stopped"]
    /\ MctpFrame

(* _process_target_to_fm *)
MctpTfStart ==
    /\ mctp.tf_pc = "started"
    /\ mctp' = [mctp EXCEPT
                   !.tf_pc = IF mctp.downstream THEN "running" ELSE "done"]
    /\ MctpFrame

MctpTfForward ==
    /\ mctp.tf_pc = "running"
    /\ mctp.down_target_to_host # <<>>
    /\ Head(mctp.down_target_to_host) # None
    /\ mctp' = [mctp EXCEPT
                   !.down_target_to_host = Tail(mctp.down_target_to_host),
                   !.up_target_to_host =
                       Append(mctp.up_target_to_host,
                              Head(mctp.down_target_to_host))]
    /\ MctpFrame

MctpTfStopped ==
    /\ mctp.tf_pc = "running"
    /\ mctp.down_target_to_host # <<>>
    /\ Head(mctp.down_target_to_host) = None
    /\ mctp' = [mctp EXCEPT
                   !.down_target_to_host = Tail(mctp.down_target_to_host),
                   !.tf_pc = "stopped"]
    /\ MctpFrame

(* The fabric manager: it puts requests on upstream host_to_target, and the
   closed sentinel after them *)
MctpFmSend ==
    /\ ~mctp.fm_closed
    /\ mctp.fm_sent < MaxMctpPackets
    /\ \E op \in ServedOpcodes :
          mctp' = [mctp EXCEPT
                      !.fm_sent = mctp.fm_sent + 1,
                      !.up_host_to_target =
                          Append(mctp.up_host_to_target,
                                 MctpRequest(op, mctp.fm_sent + 1))]
    /\ MctpFrame

MctpFmClose ==
    /\ ~mctp.fm_closed
    /\ mctp' = [mctp EXCEPT
                   !.fm_closed = TRUE,
                   !.up_host_to_target = Append(mctp.up_host_to_target, None)]
    /\ MctpFrame

(* The logical device: it puts packets on downstream target_to_host, and the
   closed sentinel after them *)
MctpLdSend ==
    /\ mctp.downstream
    /\ ~mctp.ld_closed
    /\ mctp.ld_sent < MaxMctpPackets
    /\ mctp' = [mctp EXCEPT
                   !.ld_sent = mctp.ld_sent + 1,
                   !.down_target_to_host =
                       Append(mctp.down_target_to_host,
                              MctpLdPacket(mctp.ld_sent + 1))]
    /\ MctpFrame

MctpLdClose ==
    /\ mctp.downstream
    /\ ~mctp.ld_closed
    /\ mctp' = [mctp EXCEPT
                   !.ld_closed = TRUE,
                   !.down_target_to_host =
                       Append(mctp.down_target_to_host, None)]
    /\ MctpFrame

NextMctp ==
    \/ MctpFmStart
    \/ MctpFmForward
    \/ MctpFmStopped
    \/ MctpTfStart
    \/ MctpTfForward
    \/ MctpTfStopped
    \/ MctpFmSend
    \/ MctpFmClose
    \/ MctpLdSend
    \/ MctpLdClose

SpecMctp == InitMctp /\ [][NextMctp]_vars

\* this step takes a packet, not the sentinel, from the head of a queue
MctpTakes(queue) ==
    /\ mctp[queue] # <<>>
    /\ Head(mctp[queue]) # None
    /\ mctp'[queue] = Tail(mctp[queue])

\* this step puts the packet at the end of a queue
MctpPuts(queue, packet) == mctp'[queue] = Append(mctp[queue], packet)

\* C39: with both FIFO pairs, a step that takes a packet from upstream
\* host_to_target puts it at the end of downstream host_to_target, a step
\* that takes a packet from downstream target_to_host puts it at the end of
\* upstream target_to_host, and no other step writes to downstream
\* host_to_target or upstream target_to_host
C39_RelaysBothDirections ==
    [][mctp.downstream =>
          /\ MctpTakes("up_host_to_target") =>
                /\ MctpPuts("down_host_to_target",
                            Head(mctp.up_host_to_target))
                /\ mctp'.up_target_to_host = mctp.up_target_to_host
          /\ MctpTakes("down_target_to_host") =>
                /\ MctpPuts("up_target_to_host",
                            Head(mctp.down_target_to_host))
                /\ mctp'.down_host_to_target = mctp.down_host_to_target
          /\ mctp'.down_host_to_target # mctp.down_host_to_target =>
                MctpTakes("up_host_to_target")
          /\ mctp'.up_target_to_host # mctp.up_target_to_host =>
                MctpTakes("down_target_to_host")
      ]_vars

----------------------------------------------------------------------------
(* IrqManager.shutdown.  `irq_run` holds _run_status, whether shutdown has
   been called, the connections whose handler has passed the test of
   _run_status at the top of its loop and reads, and for each connection the
   number of waiting messages that arrived with _run_status cleared by
   shutdown *)

InitIrqShutdown ==
    /\ irq_server \in BOOLEAN
    /\ irq_pc = "created"
    /\ irq_registry = [specific |-> {}, general |-> {}]
    /\ irq_links = <<>>
    /\ irq_invoked = <<>>
    /\ irq_connections = 0
    /\ irq_wire = <<>>
    /\ irq_mgr_tasks = <<>>
    /\ irq_handlers = <<>>
    /\ irq_tasks = <<>>
    /\ irq_run = [status |-> FALSE, shut |-> FALSE, passed |-> {},
                  late |-> <<>>]
    /\ frame = <<>>
    /\ payload = <<>>
    /\ mld = <<>>
    /\ mctp = <<>>
    /\ sw_calls = <<>>
    /\ FmldIdle
    /\ NoSwitch

ShutdownFrame ==
    UNCHANGED <<fmld_vars, relay_vars, switch_vars, irq_server, irq_wire,
                frame, payload, mld, mctp, sw_calls>>

\* IrqManager._run of a manager that can be shut down: _create_server sets
\* _run_status
ShutdownRun ==
    /\ irq_pc = "created"
    /\ irq_pc' = "running"
    /\ irq_mgr_tasks' = IF irq_server THEN <<"running", "running">>
                        ELSE <<"running">>
    /\ irq_run' = [irq_run EXCEPT !.status = IF irq_server THEN TRUE ELSE @]
    /\ UNCHANGED <<irq_registry, irq_links, irq_invoked, irq_connections,
                   irq_handlers, irq_tasks>>
    /\ ShutdownFrame

\* _new_conn of a running server, or start_connection of a client, which
\* sets _run_status before it makes the handler task
ShutdownConnect ==
    /\ IF irq_server THEN irq_pc = "running" ELSE irq_pc # "stopped"
    /\ Len(irq_links) < (IF irq_server THEN MaxPeers ELSE 1)
    /\ \E peer \in PeerIds :
          /\ \A c \in 1..Len(irq_links) : irq_links[c].peer # peer
          /\ irq_links' = Append(irq_links, NewLink(peer))
    /\ irq_connections' = irq_connections + 1
    /\ irq_handlers' = Append(irq_handlers, "running")
    /\ irq_run' = [irq_run EXCEPT
                      !.status = IF irq_server THEN @ ELSE TRUE,
                      !.late = Append(@, 0)]
    /\ UNCHANGED <<irq_pc, irq_registry, irq_invoked, irq_mgr_tasks, irq_tasks>>
    /\ ShutdownFrame

\* shutdown(): _run_status is cleared
Shutdown ==
    /\ ~irq_run.shut
    /\ irq_run' = [irq_run EXCEPT !.status = FALSE, !.shut = TRUE]
    /\ UNCHANGED <<irq_pc, irq_registry, irq_links, irq_invoked,
                   irq_connections, irq_mgr_tasks, irq_handlers, irq_tasks>>
    /\ ShutdownFrame

\* a peer sends an IRQ
ShutdownPeerSend ==
    /\ MessagesSent < MaxMessages
    /\ \E c \in 1..Len(irq_links), irq \in IrqCodes :
          /\ irq_links' =
                [irq_links EXCEPT
                    ![c].inbox = Append(@, irq_frame(irq, irq_links[c].peer))]
          /\ irq_run' =
                [irq_run EXCEPT
                    !.late[c] = IF irq_run.shut /\ ~irq_run.status
                                THEN @ + 1 ELSE @]
    /\ UNCHANGED <<irq_pc, irq_registry, irq_invoked, irq_connections,
                   irq_mgr_tasks, irq_handlers, irq_tasks>>
    /\ ShutdownFrame

\* the top of the loop of _irq_handler: the handler returns when
\* _run_status is False, else it goes on to read
ShutdownHandlerTop ==
    /\ \E c \in 1..Len(irq_links) :
          /\ irq_handlers[c] = "running"
          /\ c \notin irq_run.passed
          /\ IF irq_run.status
             THEN /\ irq_run' = [irq_run EXCEPT !.passed = @ \cup {c}]
                  /\ irq_handlers' = irq_handlers
             ELSE /\ irq_handlers' = [irq_handlers EXCEPT ![c] = "finished"]
                  /\ irq_run' = irq_run
    /\ UNCHANGED <<irq_pc, irq_registry, irq_links, irq_invoked,
                   irq_connections, irq_mgr_tasks, irq_tasks>>
    /\ ShutdownFrame

\* readexactly returns a message to a handler that waited in it, and the
\* handler dispatches it; it is then at the top of its loop again
ShutdownHandlerRead ==
    /\ \E c \in 1..Len(irq_links) :
          /\ c \in irq_run.passed
          /\ irq_handler_round(c)
          /\ irq_run' =
                [irq_run EXCEPT
                    !.passed = @ \ {c},
                    !.late[c] = Min(@, Len(irq_links[c].inbox) - 1)]
    /\ UNCHANGED <<irq_pc, irq_connections, irq_mgr_tasks>>
    /\ ShutdownFrame

NextIrqShutdown ==
    \/ MgrRegisterInterruptHandler
    \/ MgrRegisterGeneralHandler
    \/ ShutdownRun
    \/ ShutdownConnect
    \/ Shutdown
    \/ ShutdownPeerSend
    \/ ShutdownHandlerTop
    \/ ShutdownHandlerRead

SpecIrqShutdown == InitIrqShutdown /\ [][NextIrqShutdown]_vars

\* this step takes from connection c a message that arrived after shutdown
\* had cleared _run_status, with _run_status still cleared
TakesLateMessage(c) ==
    /\ irq_run.shut
    /\ ~irq_run.status
    /\ irq_links[c].inbox # <<>>
    /\ irq_run.late[c] = Len(irq_links[c].inbox)
    /\ irq_links'[c].inbox = Tail(irq_links[c].inbox)

\* C38: a message that arrives on a connection after shutdown has cleared
\* _run_status is given to no callback
C38_NoDispatchAfterShutdown ==
    [][\A c \in 1..Len(irq_links) :
          TakesLateMessage(c) => irq_invoked' = irq_invoked]_vars

----------------------------------------------------------------------------
(* bind_vppb and unbind_vppb called while another call is suspended.
   `sw_calls` holds the calls made on a running switch, each with the
   statement it is suspended at; a call is suspended in the event handler,
   in the port binder and in unbind_from_physical_port of the vPPB *)

\* the calls made on the switch
MaxConcurrentCalls == 2

DspPorts == {p \in 0..(NumPorts - 1) : physical_ports[p] = "DSP"}

\* a running switch whose initial_bounds have been applied, with an event
\* handler registered and no call in progress
InitConcurrent ==
    /\ initial_bounds \in [Vppbs -> DspPorts]
    /\ rt_active = [v \in Vppbs |-> TRUE]
    /\ vppb_port = initial_bounds
    /\ bind_state = initial_bounds
    /\ event_handler = TRUE
    /\ call = NoCall
    /\ calls_made = 0
    /\ sw_pc = "gather"
    /\ applied = NumVppb
    /\ sw_status = "running"
    /\ sub_status = [c \in SubComponents |-> "running"]
    /\ stop_pc = "created"
    /\ irq_connections = 0
    /\ irq_wire = <<>>
    /\ irq_mgr_tasks = <<"running">>
    /\ irq_handlers = <<>>
    /\ irq_tasks = <<>>
    /\ sw_calls = <<>>
    /\ irq_server = FALSE
    /\ irq_pc = "none"
    /\ irq_registry = <<>>
    /\ irq_links = <<>>
    /\ irq_invoked = <<>>
    /\ frame = <<>>
    /\ payload = <<>>
    /\ mld = <<>>
    /\ mctp = <<>>
    /\ irq_run = <<>>
    /\ FmldIdle

ConcurrentFrame ==
    UNCHANGED <<fmld_vars, relay_vars, irq_vars, initial_bounds,
                event_handler, call, calls_made, sw_pc, applied, sw_status,
                sub_status, stop_pc, irq_server, irq_pc, irq_registry,
                irq_links, irq_invoked, frame, payload, mld, mctp, irq_run>>

ConcurrentCall(op, port_index, vppb_index, pc, error) ==
    [op |-> op, port_index |-> port_index, vppb_index |-> vppb_index,
     pc |-> pc, error |-> error]

\* call k goes on at pc
GoesOn(k, pc) == sw_calls' = [sw_calls EXCEPT ![k].pc = pc]

\* call k raises
Raises(k, error) ==
    sw_calls' = [sw_calls EXCEPT ![k].pc = "raised", ![k].error = error]

(* bind_vppb up to its first await: the range check, the activation of the
   routing-table entry, the check of the port type and the attachment of
   the vPPB; the call is then suspended in the event handler *)
ConcurrentBind ==
    /\ Len(sw_calls) < MaxConcurrentCalls
    /\ \E port_index \in PortIndexes, vppb_index \in Vppbs :
          IF port_index_out_of_bound(port_index)
          THEN /\ sw_calls' =
                     Append(sw_calls,
                            ConcurrentCall("bind_vppb", port_index, vppb_index,
                                           "raised", "port_index is out of bound"))
               /\ UNCHANGED <<rt_active, vppb_port>>
          ELSE /\ rt_active' = activate_vppb(rt_active, vppb_index)
               /\ IF port_device(port_index) # "DSP"
                  THEN /\ sw_calls' =
                             Append(sw_calls,
                                    ConcurrentCall("bind_vppb", port_index,
                                                   vppb_index, "raised",
                                                   "physical port is not DSP"))
                       /\ vppb_port' = vppb_port
                  ELSE /\ vppb_port' =
                             [vppb_port EXCEPT ![vppb_index] = port_index]
                       /\ sw_calls' =
                             Append(sw_calls,
                                    ConcurrentCall("bind_vppb", port_index,
                                                   vppb_index, "bind_binder", ""))
    /\ UNCHANGED bind_state
    /\ ConcurrentFrame

(* unbind_vppb up to its first await *)
ConcurrentUnbind ==
    /\ Len(sw_calls) < MaxConcurrentCalls
    /\ \E vppb_index \in Vppbs :
          sw_calls' = Append(sw_calls,
                             ConcurrentCall("unbind_vppb", -1, vppb_index,
                                            "unbind_binder", ""))
    /\ UNCHANGED <<rt_active, vppb_port, bind_state>>
    /\ ConcurrentFrame

(* PortBinder.bind_vppb, awaited by a bind_vppb that the event handler has
   returned to *)
ConcurrentBindBinder ==
    /\ \E k \in 1..Len(sw_calls) :
          /\ sw_calls[k].pc = "bind_binder"
          /\ IF bind_state[sw_calls[k].vppb_index] # -1
             THEN /\ Raises(k, "vPPB is already bound")
                  /\ bind_state' = bind_state
             ELSE /\ bind_state' = [bind_state EXCEPT
                                       ![sw_calls[k].vppb_index] =
                                           sw_calls[k].port_index]
                  /\ GoesOn(k, "bind_final")
    /\ UNCHANGED <<rt_active, vppb_port>>
    /\ ConcurrentFrame

\* the BOUND_LD event, then bind_vppb returns
ConcurrentBindFinal ==
    /\ \E k \in 1..Len(sw_calls) :
          /\ sw_calls[k].pc = "bind_final"
          /\ GoesOn(k, "done")
    /\ UNCHANGED <<rt_active, vppb_port, bind_state>>
    /\ ConcurrentFrame

(* PortBinder.unbind_vppb, awaited by an unbind_vppb *)
ConcurrentUnbindBinder ==
    /\ \E k \in 1..Len(sw_calls) :
          /\ sw_calls[k].pc = "unbind_binder"
          /\ IF bind_state[sw_calls[k].vppb_index] = -1
             THEN /\ Raises(k, "vPPB is not bound")
                  /\ bind_state' = bind_state
             ELSE /\ bind_state' = [bind_state EXCEPT
                                       ![sw_calls[k].vppb_index] = -1]
                  /\ GoesOn(k, "unbind_final")
    /\ UNCHANGED <<rt_active, vppb_port>>
    /\ ConcurrentFrame

\* the UNBOUND event
ConcurrentUnbindFinal ==
    /\ \E k \in 1..Len(sw_calls) :
          /\ sw_calls[k].pc = "unbind_final"
          /\ GoesOn(k, "unbind_detach")
    /\ UNCHANGED <<rt_active, vppb_port, bind_state>>
    /\ ConcurrentFrame

\* unbind_from_physical_port of the vPPB: the vPPB is detached, and the
\* call is suspended in it
ConcurrentUnbindDetach ==
    /\ \E k \in 1..Len(sw_calls) :
          /\ sw_calls[k].pc = "unbind_detach"
          /\ vppb_port' = [vppb_port EXCEPT ![sw_calls[k].vppb_index] = -1]
          /\ GoesOn(k, "unbind_deactivate")
    /\ UNCHANGED <<rt_active, bind_state>>
    /\ ConcurrentFrame

\* unbind_from_physical_port has returned: the routing-table entry is
\* deactivated and unbind_vppb returns
ConcurrentUnbindDeactivate ==
    /\ \E k \in 1..Len(sw_calls) :
          /\ sw_calls[k].pc = "unbind_deactivate"
          /\ rt_active' = deactivate_vppb(rt_active, sw_calls[k].vppb_index)
          /\ GoesOn(k, "done")
    /\ UNCHANGED <<vppb_port, bind_state>>
    /\ ConcurrentFrame

NextConcurrent ==
    \/ ConcurrentBind
    \/ ConcurrentUnbind
    \/ ConcurrentBindBinder
    \/ ConcurrentBindFinal
    \/ ConcurrentUnbindBinder
    \/ ConcurrentUnbindFinal
    \/ ConcurrentUnbindDetach
    \/ ConcurrentUnbindDeactivate

SpecConcurrent == InitConcurrent /\ [][NextConcurrent]_vars

\* every call that was made has returned
AllReturned ==
    /\ sw_calls # <<>>
    /\ \A k \in 1..Len(sw_calls) : sw_calls[k].pc = "done"

====
